---- MODULE Spec2Model ----
(***************************************************************************)
(* Rate-acquisition pipeline of Conversor_Moedas: CacheManager (memory +   *)
(* disk tiers with one TTL), APIManager (ordered fallback between API      *)
(* clients) and ConversorMoedas.converter (validation, cache lookup,       *)
(* fetch, exact decimal arithmetic, persistence).                          *)
(*                                                                         *)
(* Number representation                                                   *)
(*   valor (amount)       integer number of 10^-2 units (cents)            *)
(*   Decimal rate         [m, t]: m * 10^-4 + t * 10^-20; t is a digit far *)
(*                        below the resolution of a binary double          *)
(*   float rate           integer number of 10^-4 units                    *)
(*   valor_convertido     integer number of 10^-2 units                    *)
(*   str                  sequence of one-character strings                *)
(*   Optional[x]          <<>> for None, <<x>> for a value                 *)
(*   dict                 function whose DOMAIN is the set of keys         *)
(***************************************************************************)
EXTENDS Integers, Sequences, FiniteSets, TLC

VARIABLES ttl, memory_cache, timestamps, disco, agora, clients, registros, ultima,
          moedas_cache, moedas_cliente, multiplas, gravado, fios, cache_enabled

\* ttl, memory_cache, timestamps, disco   the CacheManager and its directory
\* agora                                   datetime.now()
\* clients, moedas_cache                   the APIManager
\* moedas_cliente                          _moedas_cache of each client
\* registros, multiplas                    rows of the two history tables
\* ultima                                  the last operation, as its caller saw it
\* gravado                                 per key, the value and instant of the
\*                                         last set that completed and was not
\*                                         followed by set, delete or clear
\* fios                                    per thread, the operation it is in,
\*                                         its position and its local variables
\* cache_enabled                           Configuracao.cache_enabled
vars == <<ttl, memory_cache, timestamps, disco, agora, clients, registros, ultima,
          moedas_cache, moedas_cliente, multiplas, gravado, fios, cache_enabled>>

(* ------------------------------ bounds -------------------------------- *)

\* the clock runs over 0..MaxTempo
MaxTempo == 2

\* the configured cache_ttl ranges over 0..MaxTTL
MaxTTL == 1

\* the history table holds at most MaxRegistros rows
MaxRegistros == 1

\* the table of batch conversions holds at most MaxMultiplas rows
MaxMultiplas == 1

\* longest codigo handed to Moeda
MaxCodigo == 4

\* largest max_retries a client is built with
MaxRetries == 2

(* ---------------------------- str helpers ----------------------------- *)

Minusculas == <<"a","b","c","d","e","f","g","h","i","j","k","l","m",
                "n","o","p","q","r","s","t","u","v","w","x","y","z">>

Maiusculas == <<"A","B","C","D","E","F","G","H","I","J","K","L","M",
                "N","O","P","Q","R","S","T","U","V","W","X","Y","Z">>

Espacos == {" ", "\t", "\n"}

\* the upper-case letter of each lower-case letter
ParaMaiuscula ==
    [c \in {Minusculas[i] : i \in 1..Len(Minusculas)} |->
        Maiusculas[CHOOSE i \in 1..Len(Minusculas) : Minusculas[i] = c]]

\* str.upper() on one character
UpperChar(c) == IF c \in DOMAIN ParaMaiuscula THEN ParaMaiuscula[c] ELSE c

\* str.upper()
Upper(s) == [i \in 1..Len(s) |-> UpperChar(s[i])]

RECURSIVE LStrip(_)
LStrip(s) == IF s # <<>> /\ Head(s) \in Espacos THEN LStrip(Tail(s)) ELSE s

RECURSIVE RStrip(_)
RStrip(s) ==
    IF s # <<>> /\ s[Len(s)] \in Espacos
    THEN RStrip(SubSeq(s, 1, Len(s) - 1))
    ELSE s

\* str.strip()
Strip(s) == RStrip(LStrip(s))

\* mutant: the codes are upper-cased but not trimmed
NormalizarSemStrip(s) == Upper(s)

\* de_moeda.upper().strip()
Normalizar(s) == Strip(Upper(s))

\* f"taxa:{de_moeda}:{para_moeda}"
CacheKey(de, para) == <<"t","a","x","a",":">> \o de \o <<":">> \o para

(* --------------------------- decimal helpers -------------------------- *)

Sinal(x) == IF x > 0 THEN 1 ELSE IF x < 0 THEN -1 ELSE 0

Abs(x) == IF x < 0 THEN -x ELSE x

\* Decimal(str(v)) for a provider payload value v: a JSON number (a double,
\* t = 0) or a JSON string holding a decimal literal (any t)
Dec(m, t) == [m |-> m, t |-> t]

\* float(taxa): the nearest double drops the 10^-20 digit; json and str()
\* print the shortest literal that reads back as that double
ToFloat(taxa) == taxa.m

\* Decimal(str(f)) for a float f read from the cache
DecimalStr(f) == Dec(f, 0)

\* mutant: quantize with the default rounding of decimal, ROUND_HALF_EVEN
QuantizeHalfEven(valor, taxa) ==
    LET p   == valor * taxa.m
        a   == Abs(p)
        q   == a \div (100 * 100)
        r   == a % (100 * 100)
        dir == Sinal(taxa.t) * Sinal(valor) * Sinal(p)
        up  == \/ 2 * r > 100 * 100
               \/ 2 * r = 100 * 100 /\ dir > 0
               \/ 2 * r = 100 * 100 /\ dir = 0 /\ q % 2 = 1
    IN  Sinal(p) * (IF up THEN q + 1 ELSE q)

\* (valor_decimal * taxa).quantize(Decimal('0.01'), rounding=ROUND_HALF_UP):
\* the exact product is p * 10^-6 plus a 10^-22 term of sign Sinal(t);
\* ROUND_HALF_UP rounds ties away from zero
Quantize(valor, taxa) ==
    LET p   == valor * taxa.m
        a   == Abs(p)
        q   == a \div (100 * 100)
        r   == a % (100 * 100)
        dir == Sinal(taxa.t) * Sinal(valor) * Sinal(p)
        up  == \/ 2 * r > 100 * 100
               \/ 2 * r = 100 * 100 /\ dir >= 0
    IN  Sinal(p) * (IF up THEN q + 1 ELSE q)

TaxaZero(taxa) == taxa.m = 0 /\ taxa.t = 0

\* Decimal(str(1)) / taxa if taxa != 0 else Decimal('0'), kept to 10^-5
\* (nearest, ties to even)
\* mutant: the reciprocal is rounded to 2 fractional digits
TaxaInversaDuasCasas(taxa) ==
    IF taxa.m = 0 THEN 0
    ELSE LET n == 1000 * 1000
             a == Abs(taxa.m)
             q == n \div a
             r == n % a
         IN  Sinal(taxa.m) * (IF 2 * r >= a THEN q + 1 ELSE q) * 1000

TaxaInversa(taxa) ==
    IF TaxaZero(taxa) \/ taxa.m = 0 THEN 0
    ELSE LET n == 1000 * 1000 * 1000
             a == Abs(taxa.m)
             q == n \div a
             r == n % a
             up == 2 * r > a \/ (2 * r = a /\ q % 2 = 1)
         IN  Sinal(taxa.m) * (IF up THEN q + 1 ELSE q)

(* ------------------------------ CacheManager -------------------------- *)

Cache(mem, ts, dsk) == [memory_cache |-> mem, timestamps |-> ts, disco |-> dsk]

\* dict.pop(key, None) / Path.unlink(missing_ok=True)
Sem(d, key) == [k \in DOMAIN d \ {key} |-> d[k]]

\* d[key] = v
Com(d, key, v) == [k \in DOMAIN d \cup {key} |-> IF k = key THEN v ELSE d[k]]

\* json.dump of a float: the literal repr(value) as sign, integer digits and
\* the four fractional digits of the 10^-4 grid
JsonDump(value) ==
    [neg |-> value < 0, int |-> Abs(value) \div (100 * 100),
     frac |-> Abs(value) % (100 * 100)]

\* mutant: the literal is read back without its fractional digits
JsonLoadInteiro(lit) == (IF lit.neg THEN -1 ELSE 1) * (lit.int * (100 * 100))

\* json.load of a number literal
JsonLoad(lit) == (IF lit.neg THEN -1 ELSE 1) * (lit.int * (100 * 100) + lit.frac)

\* timestamp.isoformat(): minutes and seconds of the instant
IsoFormat(t) == [min |-> t \div 60, seg |-> t % 60]

\* datetime.fromisoformat
FromIsoFormat(iso) == iso.min * 60 + iso.seg

\* content of a cache file written in full by json.dump
Arquivo(timestamp, value) ==
    [tipo |-> "json", timestamp |-> IsoFormat(timestamp), value |-> JsonDump(value)]

\* content of a cache file opened for writing whose json.dump did not finish
ArquivoTruncado == [tipo |-> "truncado", timestamp |-> IsoFormat(0), value |-> JsonDump(0)]

\* mutant: an entry whose age equals the ttl still counts as valid
IsValidInclusivo(c, key, now, t) ==
    IF key \notin DOMAIN c.timestamps THEN FALSE
    ELSE now - c.timestamps[key] <= t

\* CacheManager._is_valid
IsValid(c, key, now, t) ==
    IF key \notin DOMAIN c.timestamps THEN FALSE
    ELSE now - c.timestamps[key] < t

\* mutant: delete forgets the timestamp dict
DeleteSemTimestamp(c, key) ==
    Cache(Sem(c.memory_cache, key), c.timestamps, Sem(c.disco, key))

\* CacheManager.delete
Delete(c, key) ==
    Cache(Sem(c.memory_cache, key), Sem(c.timestamps, key), Sem(c.disco, key))

\* what a file of the cache directory can hold besides what set writes
\* ("json") or leaves half written ("truncado"):
\*   nao_objeto         JSON that is not an object ([], "x", 1, null)
\*   sem_timestamp      an object with no 'timestamp' key
\*   sem_value          an object with a 'timestamp' and no 'value' key
\*   timestamp_tipo     a 'timestamp' that is not a string
\*   timestamp_formato  a 'timestamp' string fromisoformat cannot read
\*   timestamp_fuso     a 'timestamp' string with a UTC offset
TiposEstranhos ==
    {"nao_objeto", "sem_timestamp", "sem_value", "timestamp_tipo",
     "timestamp_formato", "timestamp_fuso"}

\* the contents on which lines 49-50 raise TypeError: data['timestamp'] on a
\* value that is not a dict, fromisoformat of a value that is not a str,
\* datetime.now() minus an offset-aware datetime
TiposTypeError == {"nao_objeto", "timestamp_tipo", "timestamp_fuso"}

\* mutant: the promoted entry is stamped with the instant of the read
PromoverNaLeitura(c, key, arq, now) ==
    Cache(Com(c.memory_cache, key, JsonLoad(arq.value)),
          Com(c.timestamps, key, now), c.disco)

\* lines 51-52 of get: the decoded value and the timestamp of the file go
\* into the memory tier
Promover(c, key, arq, now) ==
    Cache(Com(c.memory_cache, key, JsonLoad(arq.value)),
          Com(c.timestamps, key, FromIsoFormat(arq.timestamp)), c.disco)

\* CacheManager.get: [ret |-> Optional value, cache |-> the cache afterwards,
\* ramo |-> the branch of get that ended the call]; in the branch
\* "disco_type_error" a TypeError leaves get (the except clause of line 56
\* names JSONDecodeError, KeyError and ValueError only)
Get(c, key, now, t) ==
    IF key \in DOMAIN c.memory_cache
    THEN IF IsValid(c, key, now, t)
         THEN [ret |-> <<c.memory_cache[key]>>, cache |-> c, ramo |-> "memoria"]
         ELSE [ret |-> <<>>, cache |-> Delete(c, key), ramo |-> "memoria_expirada"]
    ELSE IF key \in DOMAIN c.disco
    THEN LET arq      == c.disco[key]
             expirado == ~(now - FromIsoFormat(arq.timestamp) < t)
             unlink   == Cache(c.memory_cache, c.timestamps, Sem(c.disco, key))
         IN  CASE arq.tipo = "json" ->
                    IF ~expirado
                    THEN [ret |-> <<JsonLoad(arq.value)>>,
                          cache |-> Promover(c, key, arq, now), ramo |-> "disco"]
                    ELSE [ret |-> <<>>, cache |-> unlink, ramo |-> "disco_expirado"]
               [] arq.tipo = "sem_value" ->
                    IF ~expirado
                    THEN [ret |-> <<>>, cache |-> unlink, ramo |-> "disco_corrompido"]
                    ELSE [ret |-> <<>>, cache |-> unlink, ramo |-> "disco_expirado"]
               [] arq.tipo \in TiposTypeError ->
                    [ret |-> <<>>, cache |-> c, ramo |-> "disco_type_error"]
               [] OTHER ->
                    [ret |-> <<>>, cache |-> unlink, ramo |-> "disco_corrompido"]
    ELSE [ret |-> <<>>, cache |-> c, ramo |-> "ausente"]

\* outcomes of the file write inside CacheManager.set
ModosEscrita == {"ok", "falha_abrir", "falha_escrever"}

\* CacheManager.set: memory first, then open(cache_file, 'w') and json.dump;
\* [ok |-> FALSE] when the write raised OSError
Set(c, key, value, now, modo) ==
    LET mem == Com(c.memory_cache, key, value)
        ts  == Com(c.timestamps, key, now)
    IN  CASE modo = "ok" ->
               [ok |-> TRUE, cache |-> Cache(mem, ts, Com(c.disco, key, Arquivo(now, value)))]
          [] modo = "falha_abrir" ->
               [ok |-> FALSE, cache |-> Cache(mem, ts, c.disco)]
          [] OTHER ->
               [ok |-> FALSE, cache |-> Cache(mem, ts, Com(c.disco, key, ArquivoTruncado))]

\* mutant: clear empties the memory tier and leaves the cache files
ClearSoMemoria(c) == Cache([k \in {} |-> 0], [k \in {} |-> 0], c.disco)

\* CacheManager.clear: both dicts are cleared and every *.json file of the
\* cache directory is unlinked
Clear(c) == Cache([k \in {} |-> 0], [k \in {} |-> 0], [k \in {} |-> 0])

\* CacheManager.get_stats
GetStats(c, t) ==
    [memory_items |-> Cardinality(DOMAIN c.memory_cache),
     disk_items |-> Cardinality(DOMAIN c.disco),
     ttl_seconds |-> t]

(* ---------------- CacheManager called from several threads ------------ *)

\* the threads that share one CacheManager and one APIManager
Fios == {1, 2}

\* a thread that has run no operation yet. The fields of the second and
\* third line describe the operation a thread is in or has just left: its
\* name once it is over, the branch a get took, the operations other threads
\* were inside while it ran, whether listar_moedas found the memo set, the
\* client calls it made, the clients it sent a request to, and how it ended
Ocioso ==
    [op |-> "", pc |-> "", chave |-> <<>>, value |-> 0, ts |-> 0,
     lido |-> ArquivoTruncado, arquivos |-> {}, i |-> 1, res |-> <<>>, errors |-> <<>>,
     feito |-> "", ramo |-> "", junto |-> {}, achou |-> FALSE,
     chamadas |-> <<>>, pedidos |-> <<>>, fim |-> <<>>]

\* the thread has left its operation, which ended as fim
Saiu(f, fim) ==
    [Ocioso EXCEPT !.feito = f.op, !.ramo = f.ramo, !.junto = f.junto,
                   !.achou = f.achou, !.chamadas = f.chamadas,
                   !.pedidos = f.pedidos, !.fim = <<fim>>]

\* a thread entering get, set, delete, clear or listar_moedas at instant now, while other
\* threads are inside the operations outros
Entrar(op, key, value, now, outros) ==
    [Ocioso EXCEPT !.op = op, !.chave = key, !.value = value, !.ts = now,
                   !.junto = outros,
                   !.pc = CASE op = "get" -> "g_mem"
                            [] op = "set" -> "s_mem"
                            [] op = "delete" -> "d_mem"
                            [] op = "clear" -> "c_mem"
                            [] OTHER -> "l_check"]

\* the thread goes on to pc; the cache is now c
Segue(f, pc, c) == [fio |-> [f EXCEPT !.pc = pc], cache |-> c, fim |-> <<>>]

\* the operation of the thread returns ret (<<>> is None)
Retorna(f, ret, c) ==
    LET fim == [tipo |-> "retorno", classe |-> "", ret |-> ret]
    IN  [fio |-> Saiu(f, fim), cache |-> c, fim |-> <<fim>>]

\* an exception of class classe leaves the operation of the thread
Propaga(f, classe, c) ==
    LET fim == [tipo |-> "erro", classe |-> classe, ret |-> <<>>]
    IN  [fio |-> Saiu(f, fim), cache |-> c, fim |-> <<fim>>]

\* one step of CacheManager.get(f.chave) run by a thread, statement by
\* statement (the lines of cache.py each pc stands for are in the comments)
PassoGet(f, c, now, t) ==
    LET k == f.chave
    IN  CASE f.pc = "g_mem" ->                  \* 35: if key in self._memory_cache
               IF k \in DOMAIN c.memory_cache THEN Segue(f, "g_valid1", c)
               ELSE Segue(f, "g_exists", c)
          [] f.pc = "g_valid1" ->               \* 94: if key not in self._timestamps
               IF k \notin DOMAIN c.timestamps
               THEN Segue([f EXCEPT !.ramo = "memoria_expirada"], "g_del1", c)
               ELSE Segue(f, "g_valid2", c)
          [] f.pc = "g_valid2" ->               \* 96: now - self._timestamps[key] < ttl
               IF k \notin DOMAIN c.timestamps THEN Propaga(f, "KeyError", c)
               ELSE IF now - c.timestamps[k] < t
               THEN Segue([f EXCEPT !.ramo = "memoria"], "g_ret", c)
               ELSE Segue([f EXCEPT !.ramo = "memoria_expirada"], "g_del1", c)
          [] f.pc = "g_ret" ->                  \* 37: return self._memory_cache[key]
               IF k \notin DOMAIN c.memory_cache THEN Propaga(f, "KeyError", c)
               ELSE Retorna(f, <<c.memory_cache[k]>>, c)
          [] f.pc = "g_del1" ->                 \* 79: self._memory_cache.pop(key, None)
               Segue(f, "g_del2", Cache(Sem(c.memory_cache, k), c.timestamps, c.disco))
          [] f.pc = "g_del2" ->                 \* 80: self._timestamps.pop(key, None)
               Segue(f, "g_del3", Cache(c.memory_cache, Sem(c.timestamps, k), c.disco))
          [] f.pc = "g_del3" ->                 \* 82, 40: unlink(missing_ok=True); return None
               Retorna(f, <<>>, Cache(c.memory_cache, c.timestamps, Sem(c.disco, k)))
          [] f.pc = "g_exists" ->               \* 44: if cache_file.exists()
               IF k \in DOMAIN c.disco THEN Segue(f, "g_open", c)
               ELSE Retorna([f EXCEPT !.ramo = "ausente"], <<>>, c)
          [] f.pc = "g_open" ->                 \* 46-47: open(cache_file, 'r'); json.load(f)
               IF k \notin DOMAIN c.disco THEN Propaga(f, "FileNotFoundError", c)
               ELSE IF c.disco[k].tipo = "json"
               THEN Segue([f EXCEPT !.lido = c.disco[k]], "g_cmp", c)
               ELSE Segue([f EXCEPT !.ramo = "disco_corrompido"], "g_corr", c)
          [] f.pc = "g_cmp" ->                  \* 49-50: now - timestamp < ttl
               IF now - FromIsoFormat(f.lido.timestamp) < t
               THEN Segue([f EXCEPT !.ramo = "disco"], "g_mem_set", c)
               ELSE Segue([f EXCEPT !.ramo = "disco_expirado"], "g_unlink", c)
          [] f.pc = "g_mem_set" ->              \* 51: self._memory_cache[key] = data['value']
               Segue(f, "g_ts_set",
                     Cache(Com(c.memory_cache, k, JsonLoad(f.lido.value)), c.timestamps,
                           c.disco))
          [] f.pc = "g_ts_set" ->               \* 52-53: self._timestamps[key] = timestamp
               Retorna(f, <<JsonLoad(f.lido.value)>>,
                       Cache(c.memory_cache,
                             Com(c.timestamps, k, FromIsoFormat(f.lido.timestamp)),
                             c.disco))
          [] f.pc = "g_unlink" ->               \* 55: cache_file.unlink()
               IF k \notin DOMAIN c.disco THEN Propaga(f, "FileNotFoundError", c)
               ELSE Retorna(f, <<>>, Cache(c.memory_cache, c.timestamps, Sem(c.disco, k)))
          [] OTHER ->                           \* 56-57: unlink(missing_ok=True)
               Retorna(f, <<>>, Cache(c.memory_cache, c.timestamps, Sem(c.disco, k)))

\* one step of CacheManager.set(f.chave, f.value) run by a thread; f.ts is
\* the datetime.now() of line 63
PassoSet(f, c) ==
    LET k == f.chave
    IN  CASE f.pc = "s_mem" ->                  \* 66: self._memory_cache[key] = value
               Segue(f, "s_ts", Cache(Com(c.memory_cache, k, f.value), c.timestamps,
                                      c.disco))
          [] f.pc = "s_ts" ->                   \* 67: self._timestamps[key] = timestamp
               Segue(f, "s_open", Cache(c.memory_cache, Com(c.timestamps, k, f.ts),
                                        c.disco))
          [] f.pc = "s_open" ->                 \* 71: open(cache_file, 'w')
               Segue(f, "s_dump", Cache(c.memory_cache, c.timestamps,
                                        Com(c.disco, k, ArquivoTruncado)))
          [] OTHER ->                           \* 72-75: json.dump(...), close
               \* the file object stays open: the content lands in the file of
               \* the key only while that file is still linked
               Retorna(f, <<>>,
                       Cache(c.memory_cache, c.timestamps,
                             IF k \in DOMAIN c.disco
                             THEN Com(c.disco, k, Arquivo(f.ts, f.value))
                             ELSE c.disco))

\* one step of CacheManager.delete(f.chave) run by a thread
PassoDelete(f, c) ==
    LET k == f.chave
    IN  CASE f.pc = "d_mem" ->                  \* 79
               Segue(f, "d_ts", Cache(Sem(c.memory_cache, k), c.timestamps, c.disco))
          [] f.pc = "d_ts" ->                   \* 80
               Segue(f, "d_unlink", Cache(c.memory_cache, Sem(c.timestamps, k), c.disco))
          [] OTHER ->                           \* 81-82
               Retorna(f, <<>>, Cache(c.memory_cache, c.timestamps, Sem(c.disco, k)))

\* one step of CacheManager.clear() run by a thread
PassoClear(f, c) ==
    CASE f.pc = "c_mem" ->                      \* 86
           Segue(f, "c_ts", Cache([k \in {} |-> 0], c.timestamps, c.disco))
      [] f.pc = "c_ts" ->                       \* 87
           Segue(f, "c_glob", Cache(c.memory_cache, [k \in {} |-> 0], c.disco))
      [] f.pc = "c_glob" ->                     \* 89: self.cache_dir.glob("*.json")
           Segue([f EXCEPT !.arquivos = DOMAIN c.disco], "c_unlink", c)
      [] OTHER ->                               \* 89-90: cache_file.unlink()
           IF f.arquivos = {} THEN Retorna(f, <<>>, c)
           ELSE LET k == CHOOSE x \in f.arquivos : TRUE
                IN  IF k \notin DOMAIN c.disco THEN Propaga(f, "FileNotFoundError", c)
                    ELSE Segue([f EXCEPT !.arquivos = f.arquivos \ {k}], "c_unlink",
                               Cache(c.memory_cache, c.timestamps, Sem(c.disco, k)))

(* ------------------------------- APIManager --------------------------- *)

\* client.nome of the client class APIManager.__init__ builds for an api name;
\* <<>> for a name it does not know
NomeCliente(api_name) ==
    CASE api_name = "frankfurter" -> <<"Frankfurter">>
      [] api_name = "exchangerate" -> <<"ExchangeRate-API">>
      [] OTHER -> <<>>

\* mutant: there is no try around the constructors, so the first one that
\* raises ends the loop and no later api gets its client
RECURSIVE ConstruirClientsAborta(_, _, _)
ConstruirClientsAborta(apis, i, falhas) ==
    IF i > Len(apis) \/ i \in falhas THEN <<>>
    ELSE NomeCliente(apis[i]) \o ConstruirClientsAborta(apis, i + 1, falhas)

\* APIManager.__init__: apis = [primary] + [secondary] if secondary; a client
\* is appended unless the name is unknown or its constructor raised
\* (falhas: the positions of apis whose constructor raises)
RECURSIVE ConstruirClients(_, _, _)
ConstruirClients(apis, i, falhas) ==
    IF i > Len(apis) THEN <<>>
    ELSE (IF i \in falhas THEN <<>> ELSE NomeCliente(apis[i]))
         \o ConstruirClients(apis, i + 1, falhas)

\* primary, then secondary unless it is None (<<>>)
Apis(primary, secondary) == <<primary>> \o secondary

\* what one call of client.obter_taxa_par can do: return a Decimal (one of
\* taxas), raise APIError (with one of mensagens), or raise another exception
\* (one of excecoes: a payload Decimal() cannot read)
Desfechos(taxas, mensagens, excecoes) ==
    {[tipo |-> "retorno", taxa |-> t, mensagem |-> ""] : t \in taxas}
    \cup {[tipo |-> "APIError", taxa |-> Dec(0, 0), mensagem |-> m] : m \in mensagens}
    \cup {[tipo |-> "excecao", taxa |-> Dec(0, 0), mensagem |-> e] : e \in excecoes}

\* f"{client.nome}: {e}"
EntradaErro(nome, mensagem) == <<nome, ": ", mensagem>>

\* '; '.join(errors), a str as the sequence of its fragments
RECURSIVE Join(_)
Join(errors) ==
    IF errors = <<>> THEN <<>>
    ELSE IF Len(errors) = 1 THEN errors[1]
    ELSE errors[1] \o <<"; ">> \o Join(Tail(errors))

\* mutant: the aggregate error carries the last failure only
TodasFalharamUltimo(errors, chamadas) ==
    LET ult == IF errors = <<>> THEN <<>> ELSE <<errors[Len(errors)]>>
    IN  [tipo |-> "erro", classe |-> "APIError",
         mensagem |-> <<"Todas as APIs falharam: ">> \o Join(ult),
         details |-> ult, ret |-> <<>>, chamadas |-> chamadas, avisos |-> errors]

\* raise APIError(f"Todas as APIs falharam: {...}", details={"errors": errors})
TodasFalharam(errors, chamadas) ==
    [tipo |-> "erro", classe |-> "APIError",
     mensagem |-> <<"Todas as APIs falharam: ">> \o Join(errors),
     details |-> errors, ret |-> <<>>, chamadas |-> chamadas, avisos |-> errors]

\* the loop of APIManager._executar_com_fallback from client i on: the set of
\* its possible runs, one per way the clients it calls can answer
RECURSIVE Execucoes(_, _, _, _, _)
Execucoes(cls, i, errors, chamadas, desfechos) ==
    IF i > Len(cls) THEN {TodasFalharam(errors, chamadas)}
    ELSE UNION {
        LET ch == Append(chamadas, [nome |-> cls[i], desfecho |-> d])
        IN  CASE d.tipo = "retorno" ->
                   {[tipo |-> "retorno", classe |-> "", mensagem |-> <<>>,
                     details |-> <<>>, ret |-> <<d.taxa>>, chamadas |-> ch,
                     avisos |-> errors]}
              [] d.tipo = "APIError" ->
                   Execucoes(cls, i + 1,
                             Append(errors, EntradaErro(cls[i], d.mensagem)), ch,
                             desfechos)
              [] OTHER ->
                   {[tipo |-> "erro", classe |-> d.mensagem, mensagem |-> <<>>,
                     details |-> <<>>, ret |-> <<>>, chamadas |-> ch,
                     avisos |-> errors]}
        : d \in desfechos}

\* mutant: the loop does not return at the first success; it calls every
\* client and returns the last value obtained
RECURSIVE ExecucoesSemParar(_, _, _, _, _, _)
ExecucoesSemParar(cls, i, errors, chamadas, desfechos, obtido) ==
    IF i > Len(cls)
    THEN IF obtido = <<>> THEN {TodasFalharam(errors, chamadas)}
         ELSE {[tipo |-> "retorno", classe |-> "", mensagem |-> <<>>,
                details |-> <<>>, ret |-> obtido, chamadas |-> chamadas,
                avisos |-> errors]}
    ELSE UNION {
        LET ch == Append(chamadas, [nome |-> cls[i], desfecho |-> d])
        IN  CASE d.tipo = "retorno" ->
                   ExecucoesSemParar(cls, i + 1, errors, ch, desfechos, <<d.taxa>>)
              [] d.tipo = "APIError" ->
                   ExecucoesSemParar(cls, i + 1,
                                     Append(errors, EntradaErro(cls[i], d.mensagem)),
                                     ch, desfechos, obtido)
              [] OTHER ->
                   {[tipo |-> "erro", classe |-> d.mensagem, mensagem |-> <<>>,
                     details |-> <<>>, ret |-> <<>>, chamadas |-> ch,
                     avisos |-> errors]}
        : d \in desfechos}

ExecutarSemParar(cls, desfechos) == ExecucoesSemParar(cls, 1, <<>>, <<>>, desfechos, <<>>)

\* mutant: a success after a failure still ends in the aggregate error
ExecutarErroFinal(cls, desfechos) ==
    {IF r.tipo = "retorno" /\ r.avisos # <<>>
     THEN TodasFalharam(r.avisos, r.chamadas) ELSE r :
        r \in Execucoes(cls, 1, <<>>, <<>>, desfechos)}

\* mutant: the loop catches Exception, so any exception of a client counts
\* as one more failure and the next client is called
RECURSIVE ExecucoesCapturaTudo(_, _, _, _, _)
ExecucoesCapturaTudo(cls, i, errors, chamadas, desfechos) ==
    IF i > Len(cls) THEN {TodasFalharam(errors, chamadas)}
    ELSE UNION {
        LET ch == Append(chamadas, [nome |-> cls[i], desfecho |-> d])
        IN  IF d.tipo = "retorno"
            THEN {[tipo |-> "retorno", classe |-> "", mensagem |-> <<>>,
                   details |-> <<>>, ret |-> <<d.taxa>>, chamadas |-> ch,
                   avisos |-> errors]}
            ELSE ExecucoesCapturaTudo(cls, i + 1,
                                      Append(errors, EntradaErro(cls[i], d.mensagem)),
                                      ch, desfechos)
        : d \in desfechos}

ExecutarCapturaTudo(cls, desfechos) == ExecucoesCapturaTudo(cls, 1, <<>>, <<>>, desfechos)

\* mutant: with no client the loop falls through and the method returns None
ExecutarSemClientes(cls, desfechos) ==
    IF cls = <<>>
    THEN {[tipo |-> "retorno", classe |-> "", mensagem |-> <<>>, details |-> <<>>,
           ret |-> <<<<>>>>, chamadas |-> <<>>, avisos |-> <<>>]}
    ELSE Execucoes(cls, 1, <<>>, <<>>, desfechos)

\* APIManager._executar_com_fallback
ExecutarComFallback(cls, desfechos) == Execucoes(cls, 1, <<>>, <<>>, desfechos)

\* APIManager.obter_taxa_par
ObterTaxaPar(cls, desfechos) == ExecutarComFallback(cls, desfechos)

\* what one call of client.listar_moedas can do, as Desfechos: the value
\* returned (field taxa) is <<mapa>> for a dict and <<>> for None (a JSON
\* null body, which FrankfurterClient hands on as it is)
DesfechosListar(mapas, mensagens, excecoes) ==
    {[tipo |-> "retorno", taxa |-> <<m>>, mensagem |-> ""] : m \in mapas}
    \cup {[tipo |-> "retorno", taxa |-> <<>>, mensagem |-> ""]}
    \cup {[tipo |-> "APIError", taxa |-> <<>>, mensagem |-> m] : m \in mensagens}
    \cup {[tipo |-> "excecao", taxa |-> <<>>, mensagem |-> e] : e \in excecoes}

\* client.listar_moedas of the client called nome whose _moedas_cache is memo
\* can answer with d: once it memoized a dict it returns that dict and makes
\* no request; ExchangeRateClient builds a dict from the payload (a malformed
\* supported_codes list raises ValueError there), FrankfurterClient returns
\* the payload as it is
ClienteResponde(nome, memo, d) ==
    IF memo # <<>>
    THEN d.tipo = "retorno" /\ d.taxa = memo
    ELSE /\ (d.tipo = "retorno" /\ d.taxa = <<>>) => nome = "Frankfurter"
         /\ d.tipo = "excecao" => nome = "ExchangeRate-API"

\* mutant: _moedas_cache is one attribute shared by every client, so a dict
\* returned by one client is memoized for all of them
MemosDepoisCompartilhado(memos, chamadas) ==
    LET obtidos == {i \in 1..Len(chamadas) : chamadas[i].desfecho.tipo = "retorno"}
        ult     == CHOOSE i \in obtidos : \A k \in obtidos : k <= i
    IN  [j \in 1..Len(memos) |->
            IF obtidos # {} THEN chamadas[ult].desfecho.taxa ELSE memos[j]]

\* _moedas_cache of each client after the calls of one operation
MemosDepois(memos, chamadas) ==
    [j \in 1..Len(memos) |->
        IF j <= Len(chamadas) /\ chamadas[j].desfecho.tipo = "retorno"
        THEN chamadas[j].desfecho.taxa
        ELSE memos[j]]

\* how one manager operation ended: what its caller saw and what the manager
\* and its clients memoize afterwards
FimGerenciador(run, memo, memos) ==
    [run |-> run, moedas_cache |-> memo, moedas_cliente |-> memos]

\* mutant: an empty dict does not count as memoized (if not self._moedas_cache)
ListarMoedasSemVazio(cls, memo, memos, desfechos) ==
    IF memo # <<>> /\ memo # <<{}>>
    THEN {FimGerenciador([tipo |-> "retorno", classe |-> "", mensagem |-> <<>>,
                          details |-> <<>>, ret |-> <<memo>>, chamadas |-> <<>>,
                          avisos |-> <<>>], memo, memos)}
    ELSE {FimGerenciador(
              run,
              IF run.tipo = "retorno" THEN run.ret[1] ELSE memo,
              MemosDepois(memos, run.chamadas)) :
            run \in {r \in ExecutarComFallback(cls, desfechos) :
                       \A j \in 1..Len(r.chamadas) :
                          ClienteResponde(cls[j], memos[j], r.chamadas[j].desfecho)}}

\* mutant: a chain that failed leaves the empty dict as the manager's memo
ListarMoedasMemorizaFalha(cls, memo, memos, desfechos) ==
    IF memo # <<>>
    THEN {FimGerenciador([tipo |-> "retorno", classe |-> "", mensagem |-> <<>>,
                          details |-> <<>>, ret |-> <<memo>>, chamadas |-> <<>>,
                          avisos |-> <<>>], memo, memos)}
    ELSE {FimGerenciador(
              run,
              IF run.tipo = "retorno" THEN run.ret[1] ELSE <<{}>>,
              MemosDepois(memos, run.chamadas)) :
            run \in {r \in ExecutarComFallback(cls, desfechos) :
                       \A j \in 1..Len(r.chamadas) :
                          ClienteResponde(cls[j], memos[j], r.chamadas[j].desfecho)}}

\* APIManager.listar_moedas on a manager whose _moedas_cache is memo
ListarMoedas(cls, memo, memos, desfechos) ==
    IF memo # <<>>
    THEN {FimGerenciador([tipo |-> "retorno", classe |-> "", mensagem |-> <<>>,
                          details |-> <<>>, ret |-> <<memo>>, chamadas |-> <<>>,
                          avisos |-> <<>>], memo, memos)}
    ELSE {FimGerenciador(
              run,
              IF run.tipo = "retorno" THEN run.ret[1] ELSE memo,
              MemosDepois(memos, run.chamadas)) :
            run \in {r \in ExecutarComFallback(cls, desfechos) :
                       \A j \in 1..Len(r.chamadas) :
                          ClienteResponde(cls[j], memos[j], r.chamadas[j].desfecho)}}

\* mutant: listar_moedas returns the result of its own chain
ValorDevolvidoLocal(f, memo) == IF f.achou THEN memo ELSE f.res

\* return self._moedas_cache: the attribute is read again at the return
ValorDevolvido(f, memo) == memo

\* one step of APIManager.listar_moedas run by a thread: the manager's
\* _moedas_cache is memo and those of its clients are memos. The set of the
\* ways the step can go, as the thread afterwards, the two memos afterwards
\* and <<how the call ended>>
PassoListar(f, cls, memo, memos, desfechos) ==
    LET vai(g, m, ms) == [fio |-> g, moedas_cache |-> m, moedas_cliente |-> ms,
                          fim |-> <<>>]
        sai(g, fim, m, ms) == [fio |-> Saiu(g, fim), moedas_cache |-> m,
                               moedas_cliente |-> ms, fim |-> <<fim>>]
        chamou(d) == [f EXCEPT !.chamadas = Append(@, [nome |-> cls[f.i],
                                                       desfecho |-> d])]
    IN  CASE f.pc = "l_check" ->       \* manager.py 87: if self._moedas_cache is None
               IF memo # <<>> THEN {vai([f EXCEPT !.pc = "l_ret", !.achou = TRUE], memo, memos)}
               ELSE {vai([f EXCEPT !.pc = "l_cliente"], memo, memos)}
          [] f.pc = "l_cliente" ->     \* manager.py 59-63; the client: if self._moedas_cache is None
               IF f.i > Len(cls)       \* manager.py 72-75
               THEN LET t == TodasFalharam(f.errors, f.chamadas)
                    IN  {sai(f, [tipo |-> "erro", classe |-> t.classe, ret |-> <<>>],
                             memo, memos)}
               ELSE IF memos[f.i] # <<>>
               THEN {vai([chamou([tipo |-> "retorno", taxa |-> memos[f.i],
                                  mensagem |-> ""])
                            EXCEPT !.pc = "l_assign", !.res = memos[f.i]], memo, memos)}
               ELSE {vai([f EXCEPT !.pc = "l_pedido"], memo, memos)}
          [] f.pc = "l_pedido" ->      \* the client: self._fazer_requisicao(...), memo stored
               {LET g == [chamou(d) EXCEPT !.pedidos = Append(@, cls[f.i])]
                IN  CASE d.tipo = "retorno" ->
                           vai([g EXCEPT !.pc = "l_assign", !.res = d.taxa], memo,
                               [memos EXCEPT ![f.i] = d.taxa])
                      [] d.tipo = "APIError" ->      \* manager.py 67-70
                           vai([g EXCEPT !.pc = "l_cliente", !.i = f.i + 1,
                                         !.errors = Append(@, EntradaErro(cls[f.i],
                                                                          d.mensagem))],
                               memo, memos)
                      [] OTHER ->
                           sai(g, [tipo |-> "erro", classe |-> d.mensagem, ret |-> <<>>],
                               memo, memos)
                : d \in {x \in desfechos : ClienteResponde(cls[f.i], <<>>, x)}}
          [] f.pc = "l_assign" ->      \* manager.py 88: self._moedas_cache = ...
               {vai([f EXCEPT !.pc = "l_ret"], f.res, memos)}
          [] OTHER ->                  \* manager.py 90
               {sai(f, [tipo |-> "retorno", classe |-> "",
                        ret |-> <<ValorDevolvido(f, memo)>>], memo, memos)}

\* the loop of APIManager.get_status from client i on: the set of its
\* possible runs; only APIError is caught
RECURSIVE Sondagens(_, _, _, _, _, _)
Sondagens(cls, i, status, memos, chamadas, desfechos) ==
    IF i > Len(cls)
    THEN {FimGerenciador([tipo |-> "retorno", classe |-> "", mensagem |-> <<>>,
                          details |-> <<>>, ret |-> <<status>>, chamadas |-> chamadas,
                          avisos |-> <<>>], <<>>, MemosDepois(memos, chamadas))}
    ELSE UNION {
        LET ch == Append(chamadas, [nome |-> cls[i], desfecho |-> d])
        IN  CASE d.tipo = "retorno" ->
                   Sondagens(cls, i + 1, [n \in DOMAIN status \cup {cls[i]} |->
                                             IF n = cls[i] THEN "online" ELSE status[n]],
                             memos, ch, desfechos)
              [] d.tipo = "APIError" ->
                   Sondagens(cls, i + 1, [n \in DOMAIN status \cup {cls[i]} |->
                                             IF n = cls[i] THEN "offline" ELSE status[n]],
                             memos, ch, desfechos)
              [] OTHER ->
                   {FimGerenciador([tipo |-> "erro", classe |-> d.mensagem,
                                    mensagem |-> <<>>, details |-> <<>>, ret |-> <<>>,
                                    chamadas |-> ch, avisos |-> <<>>],
                                   <<>>, MemosDepois(memos, ch))}
        : d \in {x \in desfechos : ClienteResponde(cls[i], memos[i], x)}}

\* APIManager.get_status
GetStatus(cls, memos, desfechos) ==
    Sondagens(cls, 1, [n \in {} |-> ""], memos, <<>>, desfechos)

(* ----------------------------- ConversorMoedas ------------------------ *)

\* the empty dict
Vazio == [k \in {} |-> 0]

\* what the last operation was given and how it ended
\*   tipo      "retorno" or "erro" (an exception left the operation)
\*   classe    class of the exception, mensagem/details its message and details
\*   conversao Optional[Conversao] returned by converter
\*   ret       Optional value returned by CacheManager.get / obter_taxa_par
\*   chamadas  the client calls made, in order, each with what the client did
\*   avisos    the failures written to the log with logger.warning
\*   do_cache  converter took the rate from the cache
\*   ramo      the branch of CacheManager.get that ended the cache read
\*   padrao    converter was called without the salvar argument
\*   value     the value given to CacheManager.set
\*   primary, secondary  the api names given to APIManager.__init__, falhas
\*             the positions of apis whose client constructor raised
\*   destinos  the para_moedas given to converter_multiplo, itens what became
\*             of each of them, conversoes the list in the ConversaoMultipla
Ultima0 ==
    [op |-> "init", valor |-> 0, de |-> <<>>, para |-> <<>>, salvar |-> FALSE,
     chave |-> <<>>, tipo |-> "retorno", classe |-> "", mensagem |-> <<>>,
     details |-> <<>>, conversao |-> <<>>, ret |-> <<>>, chamadas |-> <<>>,
     avisos |-> <<>>, do_cache |-> FALSE, ramo |-> "", padrao |-> FALSE,
     value |-> 0, destinos |-> <<>>, itens |-> <<>>, conversoes |-> <<>>,
     cliente |-> "", resposta |-> <<>>, memo |-> <<>>, max_retries |-> 0,
     primary |-> "", secondary |-> <<>>, falhas |-> {}]

Levanta(u, classe, mensagem) ==
    [u EXCEPT !.tipo = "erro", !.classe = classe, !.mensagem = mensagem]

\* mutant: converter wraps the manager's error in an error of its own
ComExecucaoEmbrulhada(u, run) ==
    IF run.tipo = "erro"
    THEN [u EXCEPT !.tipo = "erro", !.classe = "ConversaoError",
                   !.mensagem = <<"Erro na conversao: ">> \o run.mensagem,
                   !.details = <<>>, !.chamadas = run.chamadas, !.avisos = run.avisos]
    ELSE [u EXCEPT !.tipo = run.tipo, !.classe = run.classe, !.mensagem = run.mensagem,
                   !.details = run.details, !.chamadas = run.chamadas,
                   !.avisos = run.avisos]

\* the run of the manager as seen by the caller of the operation
ComExecucao(u, run) ==
    [u EXCEPT !.tipo = run.tipo, !.classe = run.classe, !.mensagem = run.mensagem,
              !.details = run.details, !.chamadas = run.chamadas,
              !.avisos = run.avisos]

\* mutant: zero passes the amount check
ValorNegativo(valor) == valor < 0

\* if valor <= 0: raise ValueError
ValorInvalido(valor) == valor <= 0

\* if de_moeda == para_moeda: raise ValueError (both already normalized)
MesmaMoeda(de, para) == de = para

\* mutant: valor_convertido is not constrained
ConversaoSemLimite(valor_original, valor_convertido) == valor_original > 0

\* Field(..., gt=0) on valor_original and valor_convertido of Conversao
ConversaoValida(valor_original, valor_convertido) ==
    valor_original > 0 /\ valor_convertido > 0

\* the Conversao built by converter from the rate it obtained
NovaConversao(valor, de, para, taxa, now) ==
    [id |-> <<>>, valor_original |-> valor,
     valor_convertido |-> Quantize(valor, taxa),
     moeda_origem |-> de, moeda_destino |-> para, taxa |-> taxa,
     taxa_inversa |-> TaxaInversa(taxa), timestamp |-> now]

\* a set of key was made inside converter: the cache missed and a client
\* returned a rate
ConverterGravou(u) ==
    /\ u.chave # <<>>
    /\ ~u.do_cache
    /\ u.chamadas # <<>>
    /\ u.chamadas[Len(u.chamadas)].desfecho.tipo = "retorno"

\* gravado after the operation logged in u ended at instant now
Gravar(g, u, now) ==
    CASE u.op = "set" ->
           IF u.tipo = "retorno"
           THEN Com(g, u.chave, [value |-> u.value, storedAt |-> now])
           ELSE Sem(g, u.chave)
      [] u.op \in {"delete", "arquivo"} -> Sem(g, u.chave)
      [] u.op = "clear" -> Vazio
      [] u.op = "converter" /\ ConverterGravou(u) ->
           IF u.classe = "OSError" THEN Sem(g, u.chave)
           ELSE Com(g, u.chave,
                    [value |-> ToFloat(u.chamadas[Len(u.chamadas)].desfecho.taxa),
                     storedAt |-> now])
      [] OTHER -> g

\* the operation ends: the cache, the history table and the observation
Termina(c, regs, u) ==
    /\ memory_cache' = c.memory_cache
    /\ timestamps' = c.timestamps
    /\ disco' = c.disco
    /\ registros' = regs
    /\ ultima' = u
    /\ gravado' = Gravar(gravado, u, agora)
    /\ UNCHANGED <<cache_enabled, ttl, agora, clients, moedas_cache, moedas_cliente, multiplas, fios>>

\* how one converter call ended: the cache and the history afterwards, and
\* what its caller saw
Fim(c, regs, u) == [cache |-> c, registros |-> regs, ultima |-> u]

\* converter from "Calculo preciso" on: compute, build Conversao (pydantic
\* validates it), save it when salvar (repo.salvar assigns the row id)
Concluir(u, c, regs, valor, de, para, taxa, salvar, now) ==
    LET conv == NovaConversao(valor, de, para, taxa, now)
    IN  IF ~ConversaoValida(conv.valor_original, conv.valor_convertido)
        THEN Fim(c, regs, Levanta(u, "ValidationError", <<"greater_than">>))
        ELSE IF salvar
        THEN Fim(c, regs + 1, [u EXCEPT !.conversao = <<[conv EXCEPT !.id = <<regs + 1>>]>>])
        ELSE Fim(c, regs, [u EXCEPT !.conversao = <<conv>>])

\* mutant: converter goes to the cache only when the flag is set
UsaCacheSeHabilitado(enabled) == enabled

\* whether converter reads and writes the cache under a Configuracao whose
\* cache_enabled is enabled: nothing in ConversorMoedas reads the flag, the
\* CacheManager is built and used either way
UsaCache(enabled) == TRUE

\* the body of ConversorMoedas.converter(valor, de_moeda, para_moeda, salvar)
\* run on cache c with regs rows of history, at instant now with ttl t and
\* the clients cls: the set of ways it can end, one per way the clients
\* answer (desfechos) and the cache file write ends (modos)
Conversoes(c, regs, now, t, cls, valor, de_moeda, para_moeda, salvar, desfechos, modos) ==
    LET de   == Normalizar(de_moeda)
        para == Normalizar(para_moeda)
        u    == [Ultima0 EXCEPT !.op = "converter", !.valor = valor,
                                !.de = de_moeda, !.para = para_moeda,
                                !.salvar = salvar]
    IN  IF ValorInvalido(valor)
        THEN {Fim(c, regs, Levanta(u, "ValueError", <<"Valor deve ser maior que zero">>))}
        ELSE IF MesmaMoeda(de, para)
        THEN {Fim(c, regs,
                  Levanta(u, "ValueError",
                          <<"Moedas de origem e destino devem ser diferentes">>))}
        ELSE LET cache_key == CacheKey(de, para)
                 g  == IF UsaCache(cache_enabled) THEN Get(c, cache_key, now, t)
                       ELSE [ret |-> <<>>, cache |-> c, ramo |-> "desligado"]
                 uk == [u EXCEPT !.chave = cache_key, !.ramo = g.ramo]
             IN  IF g.ramo = "disco_type_error"
                 THEN {Fim(g.cache, regs, Levanta(uk, "TypeError", <<>>))}
                 ELSE IF g.ret = <<>>
                 THEN UNION {
                        IF run.tipo = "retorno"
                        THEN {LET s  == IF UsaCache(cache_enabled)
                                        THEN Set(g.cache, cache_key,
                                                 ToFloat(run.ret[1]), now, modo)
                                        ELSE [ok |-> TRUE, cache |-> g.cache]
                                  ur == ComExecucao(uk, run)
                              IN  IF s.ok
                                  THEN Concluir(ur, s.cache, regs, valor, de, para,
                                                run.ret[1], salvar, now)
                                  ELSE Fim(s.cache, regs, Levanta(ur, "OSError", <<modo>>))
                              : modo \in modos}
                        ELSE {Fim(g.cache, regs, ComExecucao(uk, run))}
                        : run \in ObterTaxaPar(cls, desfechos)}
                 ELSE {Concluir([uk EXCEPT !.do_cache = TRUE], g.cache, regs, valor,
                                de, para, DecimalStr(g.ret[1]), salvar, now)}

\* a call of ConversorMoedas.converter(valor, de_moeda, para_moeda, salvar)
\* on the current state
Converter(valor, de_moeda, para_moeda, salvar, desfechos, modos) ==
    /\ salvar => registros < MaxRegistros
    /\ \E r \in Conversoes(Cache(memory_cache, timestamps, disco), registros, agora,
                           ttl, clients, valor, de_moeda, para_moeda, salvar,
                           desfechos, modos) :
         Termina(r.cache, r.registros, r.ultima)

\* salvar: bool = True
SalvarPadrao == TRUE

\* if moeda == de_moeda: continue
MesmoDestino(moeda, de) == moeda = de

\* what became of one target of converter_multiplo: "igual" (skipped), "ok"
\* (converter returned conversao) or "erro" (converter raised classe, which
\* was logged)
Item(moeda, resultado, classe, conversao) ==
    [moeda |-> moeda, resultado |-> resultado, classe |-> classe,
     conversao |-> conversao]

\* mutant: a new conversion goes to the front of the list
AcrescentarNaFrente(conversoes, r) ==
    IF r.ultima.tipo = "retorno" THEN r.ultima.conversao \o conversoes
    ELSE conversoes

\* conversoes.append(conv) when converter returned; nothing when it raised
Acrescentar(conversoes, r) ==
    IF r.ultima.tipo = "retorno" THEN conversoes \o r.ultima.conversao
    ELSE conversoes

\* the state of the loop of converter_multiplo
Parcial(c, g, itens, conversoes, chamadas) ==
    [cache |-> c, gravado |-> g, itens |-> itens, conversoes |-> conversoes,
     chamadas |-> chamadas]

\* the loop of converter_multiplo from target i on, entered in state p: the
\* set of states it can end in
RECURSIVE Lote(_, _, _, _, _, _, _, _, _, _)
Lote(p, now, t, cls, valor, de, moedas, i, desfechos, modos) ==
    IF i > Len(moedas) THEN {p}
    ELSE IF MesmoDestino(moedas[i], de)
    THEN Lote([p EXCEPT !.itens = Append(@, Item(moedas[i], "igual", "", <<>>))],
              now, t, cls, valor, de, moedas, i + 1, desfechos, modos)
    ELSE UNION {
        Lote(Parcial(r.cache, Gravar(p.gravado, r.ultima, now),
                     Append(p.itens,
                            Item(moedas[i],
                                 IF r.ultima.tipo = "retorno" THEN "ok" ELSE "erro",
                                 r.ultima.classe, r.ultima.conversao)),
                     Acrescentar(p.conversoes, r),
                     p.chamadas \o r.ultima.chamadas),
             now, t, cls, valor, de, moedas, i + 1, desfechos, modos)
        : r \in Conversoes(p.cache, 0, now, t, cls, valor, de, moedas[i], FALSE,
                           desfechos, modos)}

\* the ConversaoMultipla built and saved by converter_multiplo
NovaMultipla(id, valor, de, conversoes, now) ==
    [id |-> <<id>>, valor_original |-> valor, moeda_origem |-> de,
     conversoes |-> conversoes, timestamp |-> now]

\* ConversorMoedas.converter_multiplo(valor, de_moeda, para_moedas)
ConverterMultiplo(valor, de_moeda, para_moedas, desfechos, modos) ==
    /\ multiplas < MaxMultiplas
    /\ LET de     == Normalizar(de_moeda)
           moedas == [i \in 1..Len(para_moedas) |-> Normalizar(para_moedas[i])]
       IN  \E f \in Lote(Parcial(Cache(memory_cache, timestamps, disco), gravado,
                                 <<>>, <<>>, <<>>),
                         agora, ttl, clients, valor, de, moedas, 1, desfechos, modos) :
             /\ memory_cache' = f.cache.memory_cache
             /\ timestamps' = f.cache.timestamps
             /\ disco' = f.cache.disco
             /\ gravado' = f.gravado
             /\ multiplas' = multiplas + 1
             /\ ultima' = [Ultima0 EXCEPT
                             !.op = "converter_multiplo", !.valor = valor,
                             !.de = de_moeda, !.destinos = para_moedas,
                             !.itens = f.itens, !.conversoes = f.conversoes,
                             !.chamadas = f.chamadas,
                             !.ret = <<NovaMultipla(multiplas + 1, valor, de,
                                                    f.conversoes, agora)>>]
             /\ UNCHANGED <<cache_enabled, ttl, agora, clients, registros, moedas_cache,
                            moedas_cliente, fios>>

(* ----------------------------- the API clients ------------------------ *)

\* A response body (the dict that response.json() returns) is a function
\* from its field names; a number is <<m>> (m in 10^-4 units) and a JSON null
\* is <<>>; a dict of the body is a function from its keys.

\* how a client operation ended: ret is what it returned and memo the
\* client's _moedas_cache afterwards
FimCliente(tipo, classe, mensagem, ret, memo) ==
    [tipo |-> tipo, classe |-> classe, mensagem |-> mensagem, ret |-> ret,
     memo |-> memo]

\* the dict mensagens of ExchangeRateClient._tratar_erro
mensagens ==
    [t \in {"invalid-key", "inactive-account", "quota-reached", "unsupported-code"} |->
        CASE t = "invalid-key" -> "API key invalida"
          [] t = "inactive-account" -> "Conta inativa"
          [] t = "quota-reached" -> "Limite de requisicoes atingido"
          [] OTHER -> "Moeda nao suportada"]

\* ExchangeRateClient._tratar_erro: <<>> when it returns, <<the message>>
\* of the APIError it raises
TratarErro(data) ==
    IF "result" \in DOMAIN data /\ data["result"] = "error"
    THEN LET error_type == IF "error-type" \in DOMAIN data THEN data["error-type"]
                           ELSE "unknown"
         IN  <<IF error_type \in DOMAIN mensagens THEN <<mensagens[error_type]>>
               ELSE <<"Erro da API: ", error_type>>>>
    ELSE <<>>

\* the operations of ExchangeRateClient (obter_taxas, obter_taxa_par,
\* listar_moedas) on the body data of the response, the client's
\* _moedas_cache being memo
ExchangeRate(op, data, memo) ==
    LET e == TratarErro(data)
    IN  IF op = "listar_moedas" /\ memo # <<>>
        THEN FimCliente("retorno", "", <<>>, memo, memo)
        ELSE IF e # <<>> THEN FimCliente("erro", "APIError", e[1], <<>>, memo)
        ELSE CASE op = "obter_taxas" ->
                    LET rates == IF "conversion_rates" \in DOMAIN data
                                 THEN data["conversion_rates"] ELSE Vazio
                    IN  FimCliente("retorno", "", <<>>,
                                   <<[k \in DOMAIN rates |-> Dec(rates[k][1], 0)]>>, memo)
               [] op = "obter_taxa_par" ->
                    LET taxa == IF "conversion_rate" \in DOMAIN data
                                THEN data["conversion_rate"] ELSE <<>>
                    IN  IF taxa = <<>>
                        THEN FimCliente("erro", "APIError",
                                        <<"Taxa nao encontrada na resposta">>, <<>>, memo)
                        ELSE FimCliente("retorno", "", <<>>, <<Dec(taxa[1], 0)>>, memo)
               [] OTHER ->
                    LET supported == IF "supported_codes" \in DOMAIN data
                                     THEN data["supported_codes"] ELSE {}
                    IN  FimCliente("retorno", "", <<>>, <<supported>>, <<supported>>)

\* mutant: a target the response does not list has the rate 0
FrankfurterTaxaPadrao(data, para_moeda) ==
    LET rates == IF "rates" \in DOMAIN data THEN data["rates"] ELSE Vazio
    IN  IF para_moeda \notin DOMAIN rates
        THEN FimCliente("retorno", "", <<>>, <<Dec(0, 0)>>, <<>>)
        ELSE IF rates[para_moeda] = <<>>
        THEN FimCliente("erro", "InvalidOperation", <<>>, <<>>, <<>>)
        ELSE FimCliente("retorno", "", <<>>, <<Dec(rates[para_moeda][1], 0)>>, <<>>)

\* FrankfurterClient.obter_taxa_par on the body data of the response;
\* Decimal(str(None)) raises decimal.InvalidOperation
Frankfurter(data, para_moeda) ==
    LET rates == IF "rates" \in DOMAIN data THEN data["rates"] ELSE Vazio
    IN  IF para_moeda \notin DOMAIN rates
        THEN FimCliente("erro", "APIError", <<"Moeda ", para_moeda, " nao encontrada">>,
                        <<>>, <<>>)
        ELSE IF rates[para_moeda] = <<>>
        THEN FimCliente("erro", "InvalidOperation", <<>>, <<>>, <<>>)
        ELSE FimCliente("retorno", "", <<>>, <<Dec(rates[para_moeda][1], 0)>>, <<>>)

\* status_forcelist of the Retry that _create_session mounts
status_forcelist == {429, 500, 502, 503, 504}

\* the GET of APIClient._fazer_requisicao through the session of
\* _create_session, restantes retries being left after the requests pedidos:
\* the set of the ways it can end, one per sequence of answers. An answer
\* is a status or a connection failure; after a status of status_forcelist
\* or a connection failure the adapter sends the request again while retries
\* are left, and once none is left requests raises RetryError or
\* ConnectionError, which _fazer_requisicao turns into APIError like the
\* HTTPError of raise_for_status
RECURSIVE Requisicoes(_, _, _)
Requisicoes(restantes, pedidos, respostas) ==
    UNION {
        LET p == Append(pedidos, r)
        IN  IF r.tipo = "ConnectionError" \/ r.status \in status_forcelist
            THEN IF restantes > 0 THEN Requisicoes(restantes - 1, p, respostas)
                 ELSE {[tipo |-> "APIError", pedidos |-> p,
                        mensagem |-> IF r.tipo = "ConnectionError"
                                     THEN "Erro de conexao"
                                     ELSE "Erro na requisicao"]}
            ELSE IF r.status >= 400
            THEN {[tipo |-> "APIError", mensagem |-> "Erro HTTP", pedidos |-> p]}
            ELSE {[tipo |-> "retorno", mensagem |-> "", pedidos |-> p]}
        : r \in respostas}

\* mutant: the session sends every request once
FazerRequisicaoUmaVez(max_retries, respostas) == Requisicoes(0, <<>>, respostas)

\* APIClient._fazer_requisicao of a client built with max_retries
FazerRequisicao(max_retries, respostas) == Requisicoes(max_retries, <<>>, respostas)

\* mutant: the code is looked up as given
VerificarMoedaSemUpper(moeda, tipo, classe, moedas) ==
    IF tipo = "erro"
    THEN IF classe = "APIError"
         THEN [tipo |-> "retorno", classe |-> "", ret |-> <<FALSE>>]
         ELSE [tipo |-> "erro", classe |-> classe, ret |-> <<>>]
    ELSE IF moedas = <<>>
    THEN [tipo |-> "erro", classe |-> "TypeError", ret |-> <<>>]
    ELSE [tipo |-> "retorno", classe |-> "",
          ret |-> <<\E p \in moedas[1] : p[1] = moeda>>]

\* verificar_moeda of APIClient and of APIManager, once self.listar_moedas()
\* has ended as (tipo, classe) with the value moedas (<<>> for None, <<d>>
\* for a dict, a set of (code, name)): only APIError is caught, and
\* "x in None" raises TypeError
VerificarMoeda(moeda, tipo, classe, moedas) ==
    IF tipo = "erro"
    THEN IF classe = "APIError"
         THEN [tipo |-> "retorno", classe |-> "", ret |-> <<FALSE>>]
         ELSE [tipo |-> "erro", classe |-> classe, ret |-> <<>>]
    ELSE IF moedas = <<>>
    THEN [tipo |-> "erro", classe |-> "TypeError", ret |-> <<>>]
    ELSE [tipo |-> "retorno", classe |-> "",
          ret |-> <<\E p \in moedas[1] : p[1] = Upper(moeda)>>]

(* -------------------------------- models ------------------------------ *)

\* the pattern r'^[A-Z]{3}$' of the field codigo
Pattern(v) ==
    /\ Len(v) = 3
    /\ \A i \in 1..3 : \E j \in 1..Len(Maiusculas) : v[i] = Maiusculas[j]

\* Moeda.validar_codigo, the validator that runs after the field's own
\* constraints have accepted the value
validar_codigo(v) == Upper(v)

\* Moeda(codigo=v, ...): the constraints of Field (min_length, max_length,
\* pattern) are checked on v as given; only a value that passed them reaches
\* validar_codigo. pydantic's ValidationError is a ValueError
Moeda(v) ==
    IF Len(v) < 3 \/ Len(v) > 3 \/ ~Pattern(v)
    THEN [tipo |-> "erro", classe |-> "ValueError", codigo |-> <<>>]
    ELSE [tipo |-> "retorno", classe |-> "", codigo |-> validar_codigo(v)]

(* -------------------------------- inputs ------------------------------ *)

\* bodies of HTTP 200 responses of the keyed provider: an envelope (result
\* "success", "error" with a known, an unknown or no error-type, another
\* value, or no result field) around a payload of one of the sub-resources
Envelopes ==
    {[result |-> "success"], [result |-> "error"], [result |-> "failed"], Vazio,
     ("result" :> "error") @@ ("error-type" :> "quota-reached"),
     ("result" :> "error") @@ ("error-type" :> "novo-tipo")}

Cargas ==
    {Vazio,
     [conversion_rate |-> <<50745>>],
     [conversion_rate |-> <<>>],
     [conversion_rates |-> [k \in {<<"B", "R", "L">>} |-> <<50745>>]],
     [supported_codes |-> {<<<<"U", "S", "D">>, "US Dollar">>}],
     [supported_codes |-> {}]}

RespostasExchangeRate == {e @@ c : e \in Envelopes, c \in Cargas}

\* bodies of HTTP 200 responses of the key-less provider to a pair request
RespostasFrankfurter ==
    {Vazio,
     [rates |-> Vazio],
     [rates |-> [k \in {<<"B", "R", "L">>} |-> <<50745>>]],
     [rates |-> [k \in {<<"E", "U", "R">>} |-> <<9200>>]],
     [rates |-> [k \in {<<"B", "R", "L">>} |-> <<>>]]}

\* what the server can answer to one request: statuses, and no answer at all
RespostasHTTP ==
    {[tipo |-> "status", status |-> 200], [tipo |-> "status", status |-> 404],
     [tipo |-> "status", status |-> 429], [tipo |-> "status", status |-> 503],
     [tipo |-> "ConnectionError", status |-> 0]}

\* what one call of client.obter_taxa_par can do when its request goes
\* through _fazer_requisicao: the body of a 200 holds the rate 5.0745
DesfechosHTTP(max_retries) ==
    {[tipo |-> o.tipo, mensagem |-> o.mensagem, pedidos |-> o.pedidos,
      taxa |-> IF o.tipo = "retorno" THEN Dec(50745, 0) ELSE Dec(0, 0)] :
        o \in FazerRequisicao(max_retries, RespostasHTTP)}

\* codes handed to verificar_moeda
CodigosVerificar == {<<"u", "s", "d">>, <<"U", "S", "D">>, <<"B", "R", "L">>}

\* the characters of the codes handed to Moeda; every str of at most
\* MaxCodigo of them
Alfabeto == {"U", "d", "1"}

CodigosMoeda == UNION {[1..n -> Alfabeto] : n \in 0..MaxCodigo}

\* amounts: -5.00, 0, 0.01, 1.00, 100.00
Valores == {-500, 0, 1, 100, 10000}

\* currency codes as typed by the caller
CodigosOrigem == {<<"U","S","D">>, <<"u","s","d"," ">>, <<"B","R","L">>}

CodigosDestino == {<<"U","S","D">>, <<" ","b","r","l">>}

\* the cache keys converter can use with these codes
Chaves ==
    {CacheKey(Normalizar(x[1]), Normalizar(x[2])) :
        x \in {y \in CodigosOrigem \X CodigosDestino :
                 Normalizar(y[1]) # Normalizar(y[2])}}

\* rates a provider payload can carry: 0, -1.0, 0.025, 5.0745 and, as a
\* string, "0.02499999999999999999"
Taxas == {Dec(0, 0), Dec(-10000, 0), Dec(250, 0), Dec(250, -1), Dec(50745, 0)}

\* what a client can answer in the conversions of Spec
DesfechosConversao == Desfechos(Taxas, {"Timeout na conexao"}, {})

\* what a client can answer in the conversions of SpecTempo: 0.025, 5.0745
\* or a failure
DesfechosTempo == Desfechos({Dec(250, 0), Dec(50745, 0)}, {"Timeout na conexao"}, {})

\* messages of the APIError one client call can raise
Mensagens == {"Timeout na conexao", "Erro HTTP 500"}

\* what a client can answer in SpecGerenciador
DesfechosGerenciador == Desfechos(Taxas, Mensagens, {"InvalidOperation"})

\* Configuracao.api_primary / api_secondary (None is <<>>)
Primarias == {"frankfurter", "exchangerate", "outra"}

Secundarias == {<<>>, <<"exchangerate">>, <<"frankfurter">>}

\* converter_multiplo and converter without salvar: amounts 0, 0.01, 1.00
ValoresLote == {0, 1, 100}

\* para_moedas of converter_multiplo
ListasDestino ==
    {<<>>,
     <<<<"U","S","D">>, <<"B","R","L">>>>,
     <<<<" ","b","r","l">>, <<"X","X","X">>, <<"E","U","R">>>>}

\* origin codes given to converter without salvar: a well-formed one and a
\* short one
OrigensLivres == {<<"u","s","d"," ">>, <<"U","S">>}

\* target codes given to converter without salvar: a well-formed one and one
\* with a digit
DestinosLivres == {<<"B","R","L">>, <<"B","R","1">>}

\* what a client can answer in SpecLote: 0.025 or a failure
DesfechosLote == Desfechos({Dec(250, 0)}, {"Moeda nao suportada"}, {})

\* values given to CacheManager.set: the floats 0.025 and 5.0745
ValoresCache == {250, 50745}

\* dicts a listar_moedas payload can carry, as sets of (code, name) pairs
MapasMoedas == {{}, {<<<<"U", "S", "D">>, "US Dollar">>}}

\* what a client can answer to listar_moedas in SpecGerenciador
DesfechosMoedas == DesfechosListar(MapasMoedas, {"Timeout na conexao"}, {"ValueError"})

(* -------------------------------- actions ----------------------------- *)

\* ConversorMoedas.__init__ with cache_ttl one of ttls: a cache with the
\* configured ttl and no entry in memory, an APIManager over the configured
\* apis, an empty history
ConstruidoCom(ttls, primarias, secundarias) ==
    /\ ttl \in ttls
    /\ memory_cache = Vazio
    /\ timestamps = Vazio
    /\ disco = Vazio
    /\ agora = 0
    /\ \E primary \in primarias, secondary \in secundarias :
         clients = ConstruirClients(Apis(primary, secondary), 1, {})
    /\ registros = 0
    /\ ultima = Ultima0
    /\ moedas_cache = <<>>
    /\ moedas_cliente = [i \in 1..Len(clients) |-> <<>>]
    /\ multiplas = 0
    /\ gravado = Vazio
    /\ fios = [f \in Fios |-> Ocioso]
    /\ cache_enabled = TRUE

\* ConversorMoedas.__init__ with cache_ttl in 0..MaxTTL
Construido(primarias, secundarias) == ConstruidoCom(0..MaxTTL, primarias, secundarias)

\* ConversorMoedas.__init__ over every configuration of api names, each
\* client constructor either returning or raising; the configuration is kept
\* in the observation of the construction
InitConstrucao ==
    /\ ttl = MaxTTL
    /\ memory_cache = Vazio
    /\ timestamps = Vazio
    /\ disco = Vazio
    /\ agora = 0
    /\ \E primary \in Primarias, secondary \in Secundarias, falhas \in SUBSET {1, 2} :
         /\ clients = ConstruirClients(Apis(primary, secondary), 1, falhas)
         /\ ultima = [Ultima0 EXCEPT !.primary = primary, !.secondary = secondary,
                                     !.falhas = falhas]
    /\ registros = 0
    /\ moedas_cache = <<>>
    /\ moedas_cliente = [i \in 1..Len(clients) |-> <<>>]
    /\ multiplas = 0
    /\ gravado = Vazio
    /\ fios = [f \in Fios |-> Ocioso]
    /\ cache_enabled = TRUE

\* ConversorMoedas(Configuracao(cache_enabled=..., cache_ttl=MaxTTL,
\* api_secondary=None)): the flag set or cleared
InitConfig ==
    /\ ttl = MaxTTL
    /\ memory_cache = Vazio
    /\ timestamps = Vazio
    /\ disco = Vazio
    /\ agora = 0
    /\ clients = ConstruirClients(Apis("frankfurter", <<>>), 1, {})
    /\ registros = 0
    /\ ultima = Ultima0
    /\ moedas_cache = <<>>
    /\ moedas_cliente = [i \in 1..Len(clients) |-> <<>>]
    /\ multiplas = 0
    /\ gravado = Vazio
    /\ fios = [f \in Fios |-> Ocioso]
    /\ cache_enabled \in BOOLEAN

\* the default Configuracao: frankfurter first, exchangerate second
Init == Construido({"frankfurter"}, {<<"exchangerate">>})

\* the default Configuracao, with or without the secondary api
InitTempo == Construido({"frankfurter"}, {<<>>, <<"exchangerate">>})

\* datetime.now() advances
Tick ==
    /\ agora < MaxTempo
    /\ agora' = agora + 1
    /\ UNCHANGED <<cache_enabled, ttl, memory_cache, timestamps, disco, clients, registros, ultima,
                   moedas_cache, moedas_cliente, multiplas, gravado, fios>>

\* a call of ConversorMoedas.converter
ChamarConverter ==
    \E valor \in Valores, de \in CodigosOrigem, para \in CodigosDestino,
       salvar \in BOOLEAN :
        Converter(valor, de, para, salvar, DesfechosConversao, {"ok"})

\* a call of ConversorMoedas.converter(valor, de, para, salvar=False) with a
\* valid amount and well-formed codes
ChamarConverterValido ==
    \E valor \in {1, 100}, de \in {<<"U","S","D">>, <<"B","R","L">>},
       para \in CodigosDestino :
        Converter(valor, de, para, FALSE, DesfechosTempo, {"ok"})

\* a call of CacheManager.get
ChamarGet ==
    \E key \in Chaves :
        LET g == Get(Cache(memory_cache, timestamps, disco), key, agora, ttl)
            u == [Ultima0 EXCEPT !.op = "get", !.chave = key, !.ret = g.ret,
                                 !.ramo = g.ramo]
        IN  Termina(g.cache, registros,
                    IF g.ramo = "disco_type_error" THEN Levanta(u, "TypeError", <<>>)
                    ELSE u)

\* a call of CacheManager.set whose file write ends in one of ModosEscrita
ChamarSet ==
    \E key \in Chaves, value \in ValoresCache, modo \in ModosEscrita :
        LET s == Set(Cache(memory_cache, timestamps, disco), key, value, agora, modo)
            u == [Ultima0 EXCEPT !.op = "set", !.chave = key, !.value = value]
        IN  Termina(s.cache, registros,
                    IF s.ok THEN u ELSE Levanta(u, "OSError", <<modo>>))

\* a call of CacheManager.set whose file write completes
ChamarSetCompleto ==
    \E key \in Chaves, value \in ValoresCache :
        Termina(Set(Cache(memory_cache, timestamps, disco), key, value, agora,
                    "ok").cache,
                registros, [Ultima0 EXCEPT !.op = "set", !.chave = key, !.value = value])

\* a call of CacheManager.delete
ChamarDelete ==
    \E key \in Chaves :
        Termina(Delete(Cache(memory_cache, timestamps, disco), key), registros,
                [Ultima0 EXCEPT !.op = "delete", !.chave = key])

\* a call of CacheManager.clear
ChamarClear ==
    Termina(Clear(Cache(memory_cache, timestamps, disco)), registros,
            [Ultima0 EXCEPT !.op = "clear"])

\* a call of CacheManager.get_stats
ChamarGetStats ==
    Termina(Cache(memory_cache, timestamps, disco), registros,
            [Ultima0 EXCEPT !.op = "get_stats",
                            !.ret = <<GetStats(Cache(memory_cache, timestamps, disco),
                                               ttl)>>])

\* the process ends and a new one starts over the same cache directory and
\* database: the memory tier is empty again, and so is what the manager and
\* its clients memoized
Reiniciar ==
    /\ memory_cache' = Vazio
    /\ timestamps' = Vazio
    /\ ultima' = [Ultima0 EXCEPT !.op = "reiniciar"]
    /\ moedas_cache' = <<>>
    /\ moedas_cliente' = [i \in 1..Len(clients) |-> <<>>]
    /\ UNCHANGED <<cache_enabled, ttl, disco, agora, clients, registros, multiplas, gravado, fios>>

\* a call of APIManager.obter_taxa_par
ChamarObterTaxaPar ==
    \E run \in ObterTaxaPar(clients, DesfechosGerenciador) :
        /\ ultima' = [ComExecucao([Ultima0 EXCEPT !.op = "obter_taxa_par"], run)
                        EXCEPT !.ret = run.ret]
        /\ UNCHANGED <<cache_enabled, ttl, memory_cache, timestamps, disco, agora, clients, registros,
                       moedas_cache, moedas_cliente, multiplas, gravado, fios>>

\* a call of APIManager.listar_moedas
ChamarListarMoedas ==
    \E f \in ListarMoedas(clients, moedas_cache, moedas_cliente, DesfechosMoedas) :
        /\ ultima' = [ComExecucao([Ultima0 EXCEPT !.op = "listar_moedas"], f.run)
                        EXCEPT !.ret = f.run.ret]
        /\ moedas_cache' = f.moedas_cache
        /\ moedas_cliente' = f.moedas_cliente
        /\ UNCHANGED <<cache_enabled, ttl, memory_cache, timestamps, disco, agora, clients, registros,
                       multiplas, gravado, fios>>

\* a call of APIManager.get_status
ChamarGetStatus ==
    \E f \in GetStatus(clients, moedas_cliente, DesfechosMoedas) :
        /\ ultima' = [ComExecucao([Ultima0 EXCEPT !.op = "get_status"], f.run)
                        EXCEPT !.ret = f.run.ret]
        /\ moedas_cliente' = f.moedas_cliente
        /\ UNCHANGED <<cache_enabled, ttl, memory_cache, timestamps, disco, agora, clients, registros,
                       moedas_cache, multiplas, gravado, fios>>

\* a call of ConversorMoedas.converter_multiplo
ChamarConverterMultiplo ==
    \E valor \in ValoresLote, para_moedas \in ListasDestino :
        ConverterMultiplo(valor, <<"u","s","d"," ">>, para_moedas, DesfechosLote, {"ok"})

\* a call of ConversorMoedas.converter(valor, de_moeda, para_moeda): salvar
\* takes its default
ChamarConverterPadrao ==
    /\ SalvarPadrao => registros < MaxRegistros
    /\ \E valor \in ValoresLote, de \in OrigensLivres, para \in DestinosLivres :
         \E r \in Conversoes(Cache(memory_cache, timestamps, disco), registros, agora,
                             ttl, clients, valor, de, para, SalvarPadrao,
                             DesfechosLote, {"ok"}) :
            Termina(r.cache, r.registros, [r.ultima EXCEPT !.padrao = TRUE])

\* conversions at one instant
Next == ChamarConverter \/ ChamarGet

Spec == Init /\ [][Next]_vars

\* conversions and cache reads as time passes and the process restarts
NextTempo == Tick \/ Reiniciar \/ ChamarGet \/ ChamarConverterValido

SpecTempo == InitTempo /\ [][NextTempo]_vars

\* conversions under either setting of cache_enabled
SpecConfig == InitConfig /\ [][NextTempo]_vars

\* the cache alone, with a ttl of 0 or of the whole run of the clock
InitCache == ConstruidoCom({0, MaxTempo}, {"frankfurter"}, {<<>>})

\* the cache alone: writes that may fail, reads, removals, the clock and
\* restarts of the process
NextCache ==
    Tick \/ Reiniciar \/ ChamarSet \/ ChamarGet \/ ChamarDelete \/ ChamarClear
    \/ ChamarGetStats

SpecCache == InitCache /\ [][NextCache]_vars

\* the key the threads contend for
ChavesDisputadas == {CacheKey(<<"U", "S", "D">>, <<"B", "R", "L">>)}

\* the file of a key is written by something other than set of this
\* process: an earlier process (a well-formed entry stored at some instant
\* up to now), another program or version, a damaged disk
ArquivoEscrito ==
    \E key \in ChavesDisputadas, tipo \in {"json", "truncado"} \cup TiposEstranhos,
       ts \in 0..agora, value \in ValoresCache :
        /\ tipo \notin {"json", "sem_value"} => ts = 0
        /\ tipo # "json" => value = 250
        /\ Termina(Cache(memory_cache, timestamps,
                         Com(disco, key,
                             IF tipo = "truncado" THEN ArquivoTruncado
                             ELSE [Arquivo(ts, value) EXCEPT !.tipo = tipo])),
                   registros, [Ultima0 EXCEPT !.op = "arquivo", !.chave = key])

\* the cache over a directory whose files anything may have written
NextArquivos == Tick \/ Reiniciar \/ ArquivoEscrito \/ ChamarGet

SpecArquivos == InitCache /\ [][NextArquivos]_vars

\* the cache used by one caller at a time, every file write completing
NextCoerente ==
    Tick \/ Reiniciar \/ ChamarSetCompleto \/ ChamarGet \/ ChamarDelete \/ ChamarClear

SpecCoerente == InitCache /\ [][NextCoerente]_vars

\* a thread calls get, set, delete or clear of the shared CacheManager
EntrarNoCache ==
    \E fio \in Fios, op \in {"get", "set", "delete", "clear"},
       key \in ChavesDisputadas, value \in ValoresCache :
        /\ fios[fio].op = ""
        /\ op # "set" => value = 250
        /\ fios' = [f \in Fios |->
                      IF f = fio
                      THEN Entrar(op, key, value, agora,
                                  {fios[g].op : g \in Fios \ {fio}} \ {""})
                      ELSE IF fios[f].op = "" THEN fios[f]
                      ELSE [fios[f] EXCEPT !.junto = @ \cup {op}]]
        /\ UNCHANGED <<cache_enabled, ttl, memory_cache, timestamps, disco, agora, clients, registros,
                       ultima, moedas_cache, moedas_cliente, multiplas, gravado>>

\* the thread runs the next statement of the cache operation it is in; no
\* lock orders the statements of different threads
AvancarNoCache ==
    \E fio \in Fios :
        LET f == fios[fio]
            c == Cache(memory_cache, timestamps, disco)
            r == CASE f.op = "get" -> PassoGet(f, c, agora, ttl)
                   [] f.op = "set" -> PassoSet(f, c)
                   [] f.op = "delete" -> PassoDelete(f, c)
                   [] OTHER -> PassoClear(f, c)
            u == IF r.fim = <<>> THEN ultima
                 ELSE [Ultima0 EXCEPT !.op = f.op, !.chave = f.chave,
                                      !.value = f.value, !.tipo = r.fim[1].tipo,
                                      !.classe = r.fim[1].classe,
                                      !.ret = r.fim[1].ret]
        IN  /\ f.op \in {"get", "set", "delete", "clear"}
            /\ memory_cache' = r.cache.memory_cache
            /\ timestamps' = r.cache.timestamps
            /\ disco' = r.cache.disco
            /\ fios' = [fios EXCEPT ![fio] = r.fio]
            /\ ultima' = u
            /\ gravado' = IF r.fim = <<>> THEN gravado ELSE Gravar(gravado, u, f.ts)
            /\ UNCHANGED <<cache_enabled, ttl, agora, clients, registros, moedas_cache, moedas_cliente,
                           multiplas>>

\* with ttl = 0 every entry has expired as soon as it is stored; with the
\* other ttl the clock does not move far enough for an entry to expire
InitConcorrente == ConstruidoCom({0, MaxTTL}, {"frankfurter"}, {<<>>})

NextConcorrente == EntrarNoCache \/ AvancarNoCache

SpecConcorrente == InitConcorrente /\ [][NextConcorrente]_vars

\* a thread calls listar_moedas of the shared APIManager
EntrarNoGerenciador ==
    \E fio \in Fios :
        /\ fios[fio].op = ""
        /\ fios' = [f \in Fios |->
                      IF f = fio
                      THEN Entrar("listar_moedas", <<>>, 0, 0,
                                  {fios[g].op : g \in Fios \ {fio}} \ {""})
                      ELSE IF fios[f].op = "" THEN fios[f]
                      ELSE [fios[f] EXCEPT !.junto = @ \cup {"listar_moedas"}]]
        /\ UNCHANGED <<cache_enabled, ttl, memory_cache, timestamps, disco, agora, clients, registros,
                       ultima, moedas_cache, moedas_cliente, multiplas, gravado>>

\* the thread runs the next statement of listar_moedas
AvancarNoGerenciador ==
    \E fio \in Fios :
        /\ fios[fio].op = "listar_moedas"
        /\ \E r \in PassoListar(fios[fio], clients, moedas_cache, moedas_cliente,
                                 DesfechosMoedas) :
              /\ fios' = [fios EXCEPT ![fio] = r.fio]
              /\ moedas_cache' = r.moedas_cache
              /\ moedas_cliente' = r.moedas_cliente
              /\ ultima' = IF r.fim = <<>> THEN ultima
                           ELSE [Ultima0 EXCEPT !.op = "listar_moedas",
                                                !.tipo = r.fim[1].tipo,
                                                !.classe = r.fim[1].classe,
                                                !.ret = r.fim[1].ret,
                                                !.chamadas = r.fio.chamadas]
        /\ UNCHANGED <<cache_enabled, ttl, memory_cache, timestamps, disco, agora, clients, registros,
                       multiplas, gravado>>

InitListagem == ConstruidoCom({MaxTTL}, Primarias, Secundarias)

NextListagem == EntrarNoGerenciador \/ AvancarNoGerenciador

SpecListagem == InitListagem /\ [][NextListagem]_vars

\* batch conversions and conversions without the salvar argument
NextLote == ChamarConverterMultiplo \/ ChamarConverterPadrao

SpecLote == Init /\ [][NextLote]_vars

\* the manager alone, under every configuration, as time passes
InitGerenciador == Construido(Primarias, Secundarias)

NextGerenciador == ChamarObterTaxaPar \/ ChamarListarMoedas \/ ChamarGetStatus \/ Tick

SpecGerenciador == InitGerenciador /\ [][NextGerenciador]_vars

\* the manager under every configuration
SpecConstrucao == InitConstrucao /\ [][NextGerenciador]_vars

\* the default of the parameter secondary of APIManager.__init__
SecondaryPadrao == <<"exchangerate">>

\* APIManager(primary="frankfurter"), the other arguments at their defaults
InitPrimario == ConstruidoCom({MaxTTL}, {"frankfurter"}, {SecondaryPadrao})

SpecPrimario == InitPrimario /\ [][NextGerenciador]_vars

\* a call of obter_taxas, obter_taxa_par or listar_moedas of the
\* ExchangeRateClient that is client i, answered with the body data
ChamarExchangeRate ==
    \E i \in 1..Len(clients), data \in RespostasExchangeRate,
       op \in {"obter_taxas", "obter_taxa_par", "listar_moedas"} :
        LET f == ExchangeRate(op, data, moedas_cliente[i])
        IN  /\ clients[i] = "ExchangeRate-API"
            /\ ultima' = [Ultima0 EXCEPT !.op = op, !.cliente = clients[i],
                                         !.resposta = data, !.tipo = f.tipo,
                                         !.classe = f.classe, !.mensagem = f.mensagem,
                                         !.ret = f.ret, !.memo = moedas_cliente[i]]
            /\ moedas_cliente' = [moedas_cliente EXCEPT ![i] = f.memo]
            /\ UNCHANGED <<cache_enabled, ttl, memory_cache, timestamps, disco, agora, clients,
                           registros, moedas_cache, multiplas, gravado, fios>>

\* a call of obter_taxa_par of the FrankfurterClient that is client i
ChamarFrankfurter ==
    \E i \in 1..Len(clients), data \in RespostasFrankfurter,
       para_moeda \in {<<"B", "R", "L">>, <<"E", "U", "R">>} :
        LET f == Frankfurter(data, para_moeda)
        IN  /\ clients[i] = "Frankfurter"
            /\ ultima' = [Ultima0 EXCEPT !.op = "obter_taxa_par",
                                         !.cliente = clients[i], !.resposta = data,
                                         !.para = para_moeda, !.tipo = f.tipo,
                                         !.classe = f.classe, !.mensagem = f.mensagem,
                                         !.ret = f.ret, !.memo = moedas_cliente[i]]
            /\ UNCHANGED <<cache_enabled, ttl, memory_cache, timestamps, disco, agora, clients,
                           registros, moedas_cache, moedas_cliente, multiplas, gravado,
                           fios>>

\* a call of APIManager.obter_taxa_par whose clients were built with
\* max_retries, every request of every client being answered by the server.
\* The call leaves nothing behind that a later call reads, so the first call
\* on the manager stands for all of them
ChamarObterTaxaParHTTP ==
    /\ ultima.op = "init"
    /\ \E max_retries \in 0..MaxRetries :
        \E run \in ObterTaxaPar(clients, DesfechosHTTP(max_retries)) :
            /\ ultima' = [ComExecucao([Ultima0 EXCEPT !.op = "obter_taxa_par",
                                                      !.max_retries = max_retries],
                                      run)
                            EXCEPT !.ret = run.ret]
            /\ UNCHANGED <<cache_enabled, ttl, memory_cache, timestamps, disco, agora, clients,
                           registros, moedas_cache, moedas_cliente, multiplas, gravado,
                           fios>>

SpecHTTP == InitPrimario /\ [][ChamarObterTaxaParHTTP]_vars

\* a call of verificar_moeda of the ExchangeRateClient that is client i,
\* whose listing request, if it makes one, is answered with the body data
ClienteVerificarMoeda ==
    \E i \in 1..Len(clients), data \in RespostasExchangeRate,
       moeda \in CodigosVerificar :
        LET f == ExchangeRate("listar_moedas", data, moedas_cliente[i])
            v == VerificarMoeda(moeda, f.tipo, f.classe, f.ret)
        IN  /\ clients[i] = "ExchangeRate-API"
            /\ ultima' = [Ultima0 EXCEPT
                             !.op = "verificar_moeda", !.cliente = clients[i],
                             !.de = moeda, !.tipo = v.tipo, !.classe = v.classe,
                             !.ret = v.ret,
                             !.resposta = [tipo |-> f.tipo, classe |-> f.classe,
                                           moedas |-> f.ret]]
            /\ moedas_cliente' = [moedas_cliente EXCEPT ![i] = f.memo]
            /\ UNCHANGED <<cache_enabled, ttl, memory_cache, timestamps, disco, agora, clients,
                           registros, moedas_cache, multiplas, gravado, fios>>

\* a call of APIManager.verificar_moeda
ChamarVerificarMoeda ==
    \E moeda \in CodigosVerificar,
       f \in ListarMoedas(clients, moedas_cache, moedas_cliente, DesfechosMoedas) :
        LET moedas == IF f.run.tipo = "retorno" THEN f.run.ret[1] ELSE <<>>
            v == VerificarMoeda(moeda, f.run.tipo, f.run.classe, moedas)
        IN  /\ ultima' = [Ultima0 EXCEPT
                             !.op = "verificar_moeda", !.de = moeda,
                             !.tipo = v.tipo, !.classe = v.classe, !.ret = v.ret,
                             !.chamadas = f.run.chamadas,
                             !.resposta = [tipo |-> f.run.tipo,
                                           classe |-> f.run.classe,
                                           moedas |-> moedas]]
            /\ moedas_cache' = f.moedas_cache
            /\ moedas_cliente' = f.moedas_cliente
            /\ UNCHANGED <<cache_enabled, ttl, memory_cache, timestamps, disco, agora, clients,
                           registros, multiplas, gravado, fios>>

NextCliente ==
    ChamarExchangeRate \/ ChamarFrankfurter \/ ClienteVerificarMoeda
    \/ ChamarVerificarMoeda \/ Reiniciar

SpecCliente == InitPrimario /\ [][NextCliente]_vars

\* a Moeda is constructed
ConstruirMoeda ==
    \E v \in CodigosMoeda :
        LET m == Moeda(v)
        IN  /\ ultima' = [Ultima0 EXCEPT !.op = "Moeda", !.de = v, !.tipo = m.tipo,
                                         !.classe = m.classe, !.ret = m.codigo]
            /\ UNCHANGED <<cache_enabled, ttl, memory_cache, timestamps, disco, agora, clients,
                           registros, moedas_cache, moedas_cliente, multiplas, gravado,
                           fios>>

SpecMoeda == Init /\ [][ConstruirMoeda]_vars

(* =============================== claims =============================== *)

\* the codes of the last call after upper-casing and trimming
OrigemNormal(u) == Strip(Upper(u.de))

DestinoNormal(u) == Strip(Upper(u.para))

\* the last client call of an operation
UltimaChamada(u) == u.chamadas[Len(u.chamadas)]

\* C1: converter with an amount <= 0, whatever the codes, raises the
\* ValueError "Valor deve ser maior que zero" without reading the cache,
\* calling a client or writing the history: the call returns no Conversao,
\* makes no client call, and leaves both cache tiers and the history as
\* they were.
C1_ValorInvalido ==
    [][(ultima'.op = "converter" /\ ultima'.valor <= 0) =>
          /\ ultima'.tipo = "erro"
          /\ ultima'.classe = "ValueError"
          /\ ultima'.mensagem = <<"Valor deve ser maior que zero">>
          /\ ultima'.conversao = <<>>
          /\ ultima'.chamadas = <<>>
          /\ ultima'.ramo = ""
          /\ UNCHANGED <<memory_cache, timestamps, disco, registros>>]_vars

\* converter(0, ..., salvar=True) has failed while the cache holds an expired
\* entry for the pair, which a cache read would have removed
C1_Witness ==
    /\ ultima.op = "converter"
    /\ ultima.valor = 0
    /\ ultima.salvar
    /\ ultima.tipo = "erro"
    /\ OrigemNormal(ultima) # DestinoNormal(ultima)
    /\ LET k == CacheKey(OrigemNormal(ultima), DestinoNormal(ultima))
       IN  /\ k \in DOMAIN memory_cache
           /\ k \in DOMAIN disco
           /\ agora - timestamps[k] >= ttl

\* C2: converter with an amount > 0 and codes that are equal once
\* upper-cased and trimmed raises the ValueError "Moedas de origem e destino
\* devem ser diferentes" before any cache read or client call: no client is
\* called and both cache tiers (and the history) stay as they were.
C2_MesmaMoeda ==
    [][(/\ ultima'.op = "converter"
        /\ ultima'.valor > 0
        /\ OrigemNormal(ultima') = DestinoNormal(ultima')) =>
          /\ ultima'.tipo = "erro"
          /\ ultima'.classe = "ValueError"
          /\ ultima'.mensagem = <<"Moedas de origem e destino devem ser diferentes">>
          /\ ultima'.conversao = <<>>
          /\ ultima'.chamadas = <<>>
          /\ ultima'.ramo = ""
          /\ UNCHANGED <<memory_cache, timestamps, disco, registros>>]_vars

\* converter(100.00, "usd ", "USD") has failed with the same-currency error
\* while the cache holds an entry
C2_Witness ==
    /\ ultima.op = "converter"
    /\ ultima.valor = 10000
    /\ ultima.de = <<"u","s","d"," ">>
    /\ ultima.para = <<"U","S","D">>
    /\ ultima.classe = "ValueError"
    /\ ultima.mensagem = <<"Moedas de origem e destino devem ser diferentes">>
    /\ DOMAIN memory_cache # {}

\* the rate a successful converter call obtained: the value the cache holds
\* for the pair when it was served from the cache, else the rate returned by
\* the last client called
TaxaObtida(u) ==
    IF u.do_cache THEN [m |-> memory_cache[u.chave], t |-> 0]
    ELSE UltimaChamada(u).desfecho.taxa

\* C3: a Conversao returned by converter has valor_original equal to the
\* amount given (> 0), moeda_origem / moeda_destino equal to the upper-cased
\* and trimmed codes (which differ), taxa equal to the rate obtained from the
\* cache or from a client, and valor_convertido equal to valor * taxa rounded
\* to cents, ties away from zero: valor_convertido is within half a cent of
\* the exact product, and an exact half cent goes up.
C3_Resultado ==
    (ultima.op = "converter" /\ ultima.conversao # <<>>) =>
        LET conv == ultima.conversao[1]
            r    == TaxaObtida(ultima)
            d    == ultima.valor * r.m - conv.valor_convertido * (100 * 100)
        IN  /\ ultima.tipo = "retorno"
            /\ ultima.valor > 0
            /\ conv.valor_original = ultima.valor
            /\ conv.moeda_origem = OrigemNormal(ultima)
            /\ conv.moeda_destino = DestinoNormal(ultima)
            /\ conv.moeda_origem # conv.moeda_destino
            /\ conv.taxa = r
            /\ IF r.t < 0
               THEN 0 - (50 * 100) < d /\ d <= 50 * 100
               ELSE 0 - (50 * 100) <= d /\ d < 50 * 100

\* 1.00 at rate 0.025 fetched from a client gave 0.03: the exact half cent
\* went up
C3_Witness ==
    /\ ultima.op = "converter"
    /\ ultima.conversao # <<>>
    /\ ~ultima.do_cache
    /\ ultima.valor = 100
    /\ ultima.conversao[1].taxa = [m |-> 250, t |-> 0]
    /\ ultima.conversao[1].valor_convertido = 3

\* C4: every Conversao returned by converter, whatever rate a client or the
\* cache supplied (0 and negative rates included), has taxa > 0 and
\* valor_convertido > 0 (valor_convertido is a whole number of cents).
C4_ResultadoPositivo ==
    (ultima.op = "converter" /\ ultima.conversao # <<>>) =>
        LET conv == ultima.conversao[1]
        IN  /\ conv.taxa.m > 0 \/ (conv.taxa.m = 0 /\ conv.taxa.t > 0)
            /\ conv.valor_convertido > 0

\* the cache supplied a rate <= 0 to a valid converter call, which returned
\* no Conversao
C4_Witness ==
    /\ ultima.op = "converter"
    /\ ultima.do_cache
    /\ memory_cache[ultima.chave] <= 0
    /\ ultima.tipo = "erro"
    /\ ultima.conversao = <<>>

\* C5 (as claimed): converter with an amount > 0 and different codes either
\* returns a Conversao or fails with an error of the taxonomy (the manager's
\* APIError, a cache storage error); when the rate obtained is positive it
\* returns a Conversao.
C5_Original ==
    (/\ ultima.op = "converter"
     /\ ultima.valor > 0
     /\ OrigemNormal(ultima) # DestinoNormal(ultima)) =>
        /\ \/ ultima.tipo = "retorno" /\ ultima.conversao # <<>>
           \/ ultima.tipo = "erro" /\ ultima.classe \in {"APIError", "OSError"}
        /\ (/\ ultima.chamadas # <<>>
            /\ UltimaChamada(ultima).desfecho.tipo = "retorno"
            /\ UltimaChamada(ultima).desfecho.taxa.m > 0) =>
               ultima.tipo = "retorno"

\* the entry of key has reached the ttl: the memory tier decides when it
\* holds the key, else the cache file
Expirada(key) ==
    IF key \in DOMAIN memory_cache
    THEN agora - timestamps[key] >= ttl
    ELSE /\ key \in DOMAIN disco
         /\ agora - FromIsoFormat(disco[key].timestamp) >= ttl

\* C6 (as claimed): after a converter call that succeeded through a fetch,
\* the next converter call for the same pair made while now - storedAt < ttl
\* is served from the cache, calls no client, and succeeds.
C6_Original ==
    [][(/\ ultima.op = "converter"
        /\ ultima.tipo = "retorno"
        /\ ~ultima.do_cache
        /\ ultima'.op = "converter"
        /\ ultima'.chave = ultima.chave
        /\ agora' = agora
        /\ agora - timestamps[ultima.chave] < ttl) =>
          /\ ultima'.do_cache
          /\ ultima'.chamadas = <<>>
          /\ ultima'.tipo = "retorno"]_vars

\* C7: once now - storedAt >= ttl (the boundary included), get(key) returns
\* None and leaves no entry for key in memory, timestamps or disk; converter
\* for that pair then does not use the cache: it calls the clients, and when
\* one returns a rate both tiers hold that rate for the key with storedAt =
\* now, while when all fail neither tier holds an entry.
C7_Expiracao ==
    [][/\ (ultima'.op = "get" /\ agora' = agora /\ Expirada(ultima'.chave)) =>
             /\ ultima'.ret = <<>>
             /\ ultima'.chave \notin DOMAIN memory_cache'
             /\ ultima'.chave \notin DOMAIN timestamps'
             /\ ultima'.chave \notin DOMAIN disco'
       /\ (ultima'.op = "converter" /\ agora' = agora /\ Expirada(ultima'.chave)) =>
             /\ ~ultima'.do_cache
             /\ ultima'.chamadas # <<>>
             /\ LET k == ultima'.chave
                    d == UltimaChamada(ultima').desfecho
                IN  IF d.tipo = "retorno"
                    THEN /\ k \in DOMAIN memory_cache' /\ memory_cache'[k] = d.taxa.m
                         /\ k \in DOMAIN timestamps' /\ timestamps'[k] = agora
                         /\ k \in DOMAIN disco'
                         /\ disco'[k].tipo = "json"
                         /\ FromIsoFormat(disco'[k].timestamp) = agora
                         /\ JsonLoad(disco'[k].value) = d.taxa.m
                    ELSE /\ k \notin DOMAIN memory_cache'
                         /\ k \notin DOMAIN timestamps'
                         /\ k \notin DOMAIN disco'
      ]_vars

\* with ttl = 1, converter found the cache file of the pair expired after a
\* restart, fetched the rate again and stored it at the current time
C7_Witness ==
    /\ ttl = 1
    /\ ultima.op = "converter"
    /\ ultima.ramo = "disco_expirado"
    /\ ultima.tipo = "retorno"
    /\ ultima.chave \in DOMAIN disco
    /\ FromIsoFormat(disco[ultima.chave].timestamp) = agora
    /\ agora > 0

\* C8: with two clients, when the first raises APIError and the second
\* returns a rate, obter_taxa_par returns exactly that rate and raises
\* nothing; the first client's failure is only written to the log.
C8_Fallback ==
    (/\ ultima.op = "obter_taxa_par"
     /\ Len(clients) = 2
     /\ Len(ultima.chamadas) = 2
     /\ ultima.chamadas[1].desfecho.tipo = "APIError"
     /\ ultima.chamadas[2].desfecho.tipo = "retorno") =>
        /\ ultima.tipo = "retorno"
        /\ ultima.ret = <<ultima.chamadas[2].desfecho.taxa>>
        /\ ultima.classe = ""
        /\ ultima.details = <<>>
        /\ ultima.avisos = <<<<clients[1], ": ", ultima.chamadas[1].desfecho.mensagem>>>>

\* Frankfurter failed, ExchangeRate-API returned 5.0745, and that is what
\* obter_taxa_par returned
C8_Witness ==
    /\ ultima.op = "obter_taxa_par"
    /\ clients = <<"Frankfurter", "ExchangeRate-API">>
    /\ Len(ultima.chamadas) = 2
    /\ ultima.chamadas[1].desfecho.tipo = "APIError"
    /\ ultima.chamadas[2].desfecho.tipo = "retorno"
    /\ ultima.ret = <<[m |-> 50745, t |-> 0]>>

\* every client of the manager was called and raised APIError
TodosFalharam(u) ==
    /\ Len(u.chamadas) = Len(clients)
    /\ \A i \in 1..Len(clients) : u.chamadas[i].desfecho.tipo = "APIError"

\* C9: when every client raises APIError, _executar_com_fallback raises one
\* APIError whose details list has exactly one entry per client, in the
\* order of the client list, made of the client's name and its message, and
\* whose message is "Todas as APIs falharam: " followed by those same
\* entries in that order, separated by "; ".
C9_FalhaTotal ==
    (ultima.op = "obter_taxa_par" /\ TodosFalharam(ultima)) =>
        LET n == Len(clients)
        IN  /\ ultima.tipo = "erro"
            /\ ultima.classe = "APIError"
            /\ ultima.ret = <<>>
            /\ Len(ultima.details) = n
            /\ \A i \in 1..n :
                 ultima.details[i] =
                    <<clients[i], ": ", ultima.chamadas[i].desfecho.mensagem>>
            /\ Len(ultima.mensagem) = (IF n = 0 THEN 1 ELSE 4 * n)
            /\ ultima.mensagem[1] = "Todas as APIs falharam: "
            /\ \A i \in 1..n :
                 /\ ultima.mensagem[4 * i - 2] = clients[i]
                 /\ ultima.mensagem[4 * i - 1] = ": "
                 /\ ultima.mensagem[4 * i] = ultima.chamadas[i].desfecho.mensagem
                 /\ i < n => ultima.mensagem[4 * i + 1] = "; "

\* two clients failed with different messages and the aggregate error names
\* both
C9_Witness ==
    /\ ultima.op = "obter_taxa_par"
    /\ Len(clients) = 2
    /\ clients[1] # clients[2]
    /\ TodosFalharam(ultima)
    /\ ultima.chamadas[1].desfecho.mensagem # ultima.chamadas[2].desfecho.mensagem
    /\ Len(ultima.details) = 2

\* C10: in one _executar_com_fallback call the clients are called in list
\* order, each at most once; a client is called only after every client
\* before it raised APIError in this call; no client is called after one
\* returned; and the value returned is the value of that one client.
C10_PrimeiroSucesso ==
    (ultima.op = "obter_taxa_par") =>
        LET n == Len(ultima.chamadas)
        IN  /\ n <= Len(clients)
            /\ \A i \in 1..n : ultima.chamadas[i].nome = clients[i]
            /\ \A i \in 1..n :
                 i < n => ultima.chamadas[i].desfecho.tipo = "APIError"
            /\ ultima.tipo = "retorno" =>
                 /\ n >= 1
                 /\ UltimaChamada(ultima).desfecho.tipo = "retorno"
                 /\ ultima.ret = <<UltimaChamada(ultima).desfecho.taxa>>
            /\ (n >= 1 /\ UltimaChamada(ultima).desfecho.tipo = "retorno") =>
                 ultima.tipo = "retorno"

\* the first of two clients returned a rate and the second was not called
C10_Witness ==
    /\ ultima.op = "obter_taxa_par"
    /\ Len(clients) = 2
    /\ Len(ultima.chamadas) = 1
    /\ ultima.tipo = "retorno"
    /\ ultima.ret = <<ultima.chamadas[1].desfecho.taxa>>

\* C11: once a listar_moedas call of the manager has returned a dict (the
\* empty dict included), every later call on that manager, at any later
\* time, returns that same dict, calls no client and keeps the memoized dict.
C11_Memo ==
    [][(ultima'.op = "listar_moedas" /\ agora' = agora) =>
          /\ (ultima'.tipo = "retorno" /\ ultima'.ret # <<<<>>>>) =>
                moedas_cache' = ultima'.ret[1]
          /\ moedas_cache # <<>> =>
                /\ ultima'.tipo = "retorno"
                /\ ultima'.ret = <<moedas_cache>>
                /\ ultima'.chamadas = <<>>
                /\ moedas_cache' = moedas_cache
                /\ moedas_cliente' = moedas_cliente]_vars

\* time has passed, the manager of two clients memoized the empty dict, and
\* a later listar_moedas returned it without calling a client
C11_Witness ==
    /\ ultima.op = "listar_moedas"
    /\ Len(clients) = 2
    /\ agora > 0
    /\ moedas_cache = <<{}>>
    /\ ultima.ret = <<<<{}>>>>
    /\ ultima.chamadas = <<>>

\* the conversions of the targets of a batch, in the order of the targets
RECURSIVE Sucessos(_)
Sucessos(itens) ==
    IF itens = <<>> THEN <<>>
    ELSE (IF Head(itens).resultado = "ok" THEN Head(itens).conversao ELSE <<>>)
         \o Sucessos(Tail(itens))

\* C12: converter_multiplo with an amount > 0 returns a ConversaoMultipla
\* whatever happened to each target: every target is either skipped (it
\* equals the normalized origin), converted, or failed; the list returned
\* holds, in the order of para_moedas, exactly the Conversao of each target
\* whose converter call returned, and nothing for the others.
C12_LoteParcial ==
    (ultima.op = "converter_multiplo" /\ ultima.valor > 0) =>
        /\ ultima.tipo = "retorno"
        /\ ultima.ret # <<>>
        /\ ultima.ret[1].conversoes = ultima.conversoes
        /\ Len(ultima.itens) = Len(ultima.destinos)
        /\ \A i \in 1..Len(ultima.itens) :
             LET it == ultima.itens[i]
             IN  /\ it.moeda = Strip(Upper(ultima.destinos[i]))
                 /\ it.resultado = "igual" <=> it.moeda = OrigemNormal(ultima)
                 /\ it.resultado = "ok" <=> it.conversao # <<>>
                 /\ it.resultado = "ok" =>
                      /\ it.conversao[1].moeda_destino = it.moeda
                      /\ it.conversao[1].moeda_origem = OrigemNormal(ultima)
                      /\ it.conversao[1].valor_original = ultima.valor
        /\ ultima.conversoes = Sucessos(ultima.itens)

\* converter_multiplo(1.00, "usd ", [" brl", "XXX", "EUR"]) returned BRL and
\* EUR only: the conversion to XXX failed with the aggregate APIError
C12_Witness ==
    /\ ultima.op = "converter_multiplo"
    /\ ultima.valor = 100
    /\ Len(ultima.itens) = 3
    /\ ultima.itens[1].resultado = "ok"
    /\ ultima.itens[2].resultado = "erro"
    /\ ultima.itens[2].classe = "APIError"
    /\ ultima.itens[3].resultado = "ok"
    /\ Len(ultima.conversoes) = 2
    /\ ultima.conversoes[1].moeda_destino = <<"B","R","L">>
    /\ ultima.conversoes[2].moeda_destino = <<"E","U","R">>

\* C13: when converter misses the cache and every client raises APIError,
\* converter raises the manager's aggregate APIError as it is (the message
\* and the details list naming every client in order), returns no Conversao,
\* saves nothing, and neither cache tier holds an entry for the pair's key.
C13_SemTaxaSubstituta ==
    [][(/\ ultima'.op = "converter"
        /\ ultima'.chave # <<>>
        /\ ~ultima'.do_cache
        /\ TodosFalharam(ultima')) =>
          /\ ultima'.tipo = "erro"
          /\ ultima'.classe = "APIError"
          /\ ultima'.details =
                [i \in 1..Len(clients) |->
                    <<clients[i], ": ", ultima'.chamadas[i].desfecho.mensagem>>]
          /\ ultima'.mensagem = <<"Todas as APIs falharam: ">> \o Join(ultima'.details)
          /\ ultima'.conversao = <<>>
          /\ registros' = registros
          /\ ultima'.chave \notin DOMAIN memory_cache'
          /\ ultima'.chave \notin DOMAIN timestamps'
          /\ ultima'.chave \notin DOMAIN disco']_vars

\* with ttl = 0 a rate was cached for the pair, the next converter call found
\* it expired, both clients failed, and no entry is left
C13_Witness ==
    /\ ultima.op = "converter"
    /\ ultima.ramo = "memoria_expirada"
    /\ Len(ultima.chamadas) = 2
    /\ TodosFalharam(ultima)
    /\ ultima.classe = "APIError"
    /\ ultima.chave \in DOMAIN gravado
    /\ ultima.chave \notin DOMAIN memory_cache

\* C14: after set(k, v) has completed, and until the next set, delete or
\* clear of k, every get(k) made while now - storedAt < ttl returns v, on the
\* same CacheManager and on a new one created over the same directory after
\* a restart.
C14_IdaEVolta ==
    [][(/\ ultima'.op = "get"
        /\ agora' = agora
        /\ ultima'.chave \in DOMAIN gravado
        /\ agora - gravado[ultima'.chave].storedAt < ttl) =>
          /\ ultima'.ret = <<gravado[ultima'.chave].value>>
          /\ gravado' = gravado]_vars

\* 0.025 was set, time passed, the process restarted, and get read 0.025
\* back from the cache file
C14_Witness ==
    /\ ultima.op = "get"
    /\ ultima.ramo = "disco"
    /\ ultima.chave \in DOMAIN gravado
    /\ gravado[ultima.chave].value = 250
    /\ agora > gravado[ultima.chave].storedAt
    /\ ultima.ret = <<250>>

\* the cache file of key holds an entry that a read would accept
ArquivoValido(key) ==
    /\ key \in DOMAIN disco
    /\ disco[key].tipo = "json"
    /\ agora - FromIsoFormat(disco[key].timestamp) < ttl

\* C15 (as claimed): a set(k, v) either completes, and then both tiers hold
\* v for k, or raises, and then a cache file of k that was valid before the
\* call is unchanged and the memory tier holds for k no value that the cache
\* file lacks.
C15_Original ==
    [][(ultima'.op = "set" /\ agora' = agora) =>
          LET k == ultima'.chave
          IN  IF ultima'.tipo = "retorno"
              THEN /\ k \in DOMAIN memory_cache' /\ memory_cache'[k] = ultima'.value
                   /\ k \in DOMAIN disco' /\ disco'[k].tipo = "json"
                   /\ JsonLoad(disco'[k].value) = ultima'.value
              ELSE /\ ArquivoValido(k) => (k \in DOMAIN disco' /\ disco'[k] = disco[k])
                   /\ k \in DOMAIN memory_cache' =>
                        /\ k \in DOMAIN disco'
                        /\ disco'[k].tipo = "json"
                        /\ JsonLoad(disco'[k].value) = memory_cache'[k]]_vars

\* C16: delete(k) leaves no entry for k in memory, timestamps or disk and
\* leaves the entries of every other key as they were; after clear(), after
\* any sequence of operations (failed writes included), no tier holds any
\* entry, get returns None for every key, and get_stats reports 0 items in
\* memory and 0 on disk.
C16_RemoverELimpar ==
    [][/\ (ultima'.op = "delete" /\ agora' = agora) =>
             LET k == ultima'.chave
             IN  /\ DOMAIN memory_cache' = DOMAIN memory_cache \ {k}
                 /\ DOMAIN timestamps' = DOMAIN timestamps \ {k}
                 /\ DOMAIN disco' = DOMAIN disco \ {k}
                 /\ \A o \in DOMAIN memory_cache' : memory_cache'[o] = memory_cache[o]
                 /\ \A o \in DOMAIN timestamps' : timestamps'[o] = timestamps[o]
                 /\ \A o \in DOMAIN disco' : disco'[o] = disco[o]
       /\ (ultima'.op = "clear" /\ agora' = agora) =>
             LET c == Cache(memory_cache', timestamps', disco')
             IN  /\ DOMAIN memory_cache' = {}
                 /\ DOMAIN timestamps' = {}
                 /\ DOMAIN disco' = {}
                 /\ \A key \in Chaves : Get(c, key, agora', ttl).ret = <<>>
                 /\ GetStats(c, ttl).memory_items = 0
                 /\ GetStats(c, ttl).disk_items = 0
      ]_vars

\* a key was deleted while another key is held by both tiers
C16_Witness ==
    /\ ultima.op = "delete"
    /\ ultima.chave \notin DOMAIN disco
    /\ \E o \in Chaves :
         /\ o # ultima.chave
         /\ o \in DOMAIN memory_cache
         /\ o \in DOMAIN disco

\* C17 (as claimed): get_status returns, whatever each client's probe does,
\* a dict with exactly the names of the manager's clients; every client is
\* probed, and a name is "online" when the (last) probe of a client of that
\* name succeeded and "offline" otherwise.
C17_Original ==
    (ultima.op = "get_status") =>
        /\ ultima.tipo = "retorno"
        /\ Len(ultima.chamadas) = Len(clients)
        /\ DOMAIN ultima.ret[1] = {clients[i] : i \in 1..Len(clients)}
        /\ \A i \in 1..Len(clients) :
             (\A j \in (i + 1)..Len(clients) : clients[j] # clients[i]) =>
                ultima.ret[1][clients[i]] =
                   (IF ultima.chamadas[i].desfecho.tipo = "retorno"
                    THEN "online" ELSE "offline")

\* validar_codigo_moeda accepts the code: exactly 3 upper-case letters
CodigoValido(codigo) ==
    /\ Len(codigo) = 3
    /\ \A i \in 1..3 : \E j \in 1..Len(Maiusculas) : codigo[i] = Maiusculas[j]

\* C18 (as claimed): converter with an amount > 0 and a code that, upper-cased
\* and trimmed, is not 3 upper-case letters raises a caller error (ValueError)
\* and calls no client.
C18_Original ==
    (/\ ultima.op = "converter"
     /\ ultima.valor > 0
     /\ ~(CodigoValido(OrigemNormal(ultima)) /\ CodigoValido(DestinoNormal(ultima)))) =>
        /\ ultima.tipo = "erro"
        /\ ultima.classe = "ValueError"
        /\ ultima.chamadas = <<>>

\* C19 (as claimed): a converter call made with only (valor, de_moeda,
\* para_moeda) writes nothing to the history.
C19_Original ==
    [][(ultima'.op = "converter" /\ ultima'.padrao) => registros' = registros]_vars

\* C20 (as claimed): converter_multiplo with an amount <= 0 raises the
\* ValueError of the amount check, returns no ConversaoMultipla and calls no
\* client.
C20_Original ==
    (ultima.op = "converter_multiplo" /\ ultima.valor <= 0) =>
        /\ ultima.tipo = "erro"
        /\ ultima.classe = "ValueError"
        /\ ultima.ret = <<>>
        /\ ultima.chamadas = <<>>

\* C21 (as stated): a get that finds the key expired and a set of the same
\* key running at the same time leave the two tiers in agreement once both
\* have finished: either both hold the value with the instant of its set, or
\* neither holds the key; no partial file and no value paired with the
\* instant of another set remains
C21_Original ==
    (/\ \A fio \in Fios : fios[fio].op = ""
     /\ \E fio \in Fios :
          /\ fios[fio].feito = "get"
          /\ fios[fio].ramo \in {"memoria_expirada", "disco_expirado"}
          /\ fios[fio].junto = {"set"}
     /\ \A fio \in Fios :
          fios[fio].junto \subseteq {"get", "set"}) =>
        \A key \in ChavesDisputadas :
            /\ key \in DOMAIN memory_cache <=> key \in DOMAIN disco
            /\ key \in DOMAIN memory_cache <=> key \in DOMAIN timestamps
            /\ key \in DOMAIN disco =>
                  /\ disco[key].tipo = "json"
                  /\ key \in DOMAIN memory_cache /\ key \in DOMAIN timestamps =>
                        /\ JsonLoad(disco[key].value) = memory_cache[key]
                        /\ FromIsoFormat(disco[key].timestamp) = timestamps[key]

\* C22 (as stated): a get that runs while another thread is inside set,
\* delete, clear or get of the same key returns a value or None; no
\* exception leaves it
C22_Original == ultima.op = "get" => ultima.tipo = "retorno"

\* C23 (as stated): of two callers of listar_moedas that both found the memo
\* unset and ran at the same time, a single one runs the fallback chain, and
\* both return the same map
C23_Original ==
    \A f, g \in Fios :
        (/\ f # g
         /\ fios[f].feito = "listar_moedas" /\ fios[g].feito = "listar_moedas"
         /\ "listar_moedas" \in fios[f].junto /\ "listar_moedas" \in fios[g].junto
         /\ ~fios[f].achou /\ ~fios[g].achou
         /\ fios[f].fim[1].tipo = "retorno" /\ fios[g].fim[1].tipo = "retorno") =>
            /\ fios[f].chamadas = <<>> \/ fios[g].chamadas = <<>>
            /\ fios[f].fim[1].ret = fios[g].fim[1].ret

\* C23 (amended): callers of listar_moedas are not serialised. A call that
\* finds the memo unset runs the fallback chain itself, whatever other calls
\* are doing; a call that finds the memo set calls no client and returns
\* normally; every call that returns hands back the memo as it stands at its
\* return
C23_Recalcula ==
    [][\A fio \in Fios :
          (fios[fio].op = "listar_moedas" /\ fios'[fio].op = "") =>
              LET g == fios'[fio]
              IN  /\ g.fim[1].tipo = "retorno" => g.fim[1].ret = <<moedas_cache>>
                  /\ g.achou => g.chamadas = <<>> /\ g.fim[1].tipo = "retorno"
                  /\ (~g.achou /\ clients # <<>>) => g.chamadas # <<>>]_vars

\* two overlapping calls both found the memo unset, both sent a request to
\* Frankfurter, and returned different maps
C23_Witness ==
    /\ \A f \in Fios :
          /\ fios[f].feito = "listar_moedas"
          /\ "listar_moedas" \in fios[f].junto
          /\ fios[f].pedidos = <<"Frankfurter">>
          /\ fios[f].fim[1].tipo = "retorno"
    /\ fios[1].fim[1].ret # fios[2].fim[1].ret
    /\ moedas_cache # <<>>

\* C24 (as stated): a manager built as APIManager(primary="frankfurter")
\* holds exactly one client, Frankfurter
C24_Original == clients = <<"Frankfurter">>

\* C25 (as stated): Moeda(codigo=c) succeeds exactly when c is three letters
\* of any case, and then stores c in upper case; a code whose length is not
\* 3 is rejected with a ValueError
C25_Original ==
    ultima.op = "Moeda" =>
        LET c == ultima.de
            Letra(x) == \E j \in 1..Len(Maiusculas) :
                           x = Maiusculas[j] \/ x = Minusculas[j]
        IN  /\ ultima.tipo = "retorno" <=>
                  (Len(c) = 3 /\ \A i \in 1..3 : Letra(c[i]))
            /\ ultima.tipo = "retorno" => ultima.ret = Upper(c)
            /\ Len(c) # 3 => ultima.tipo = "erro" /\ ultima.classe = "ValueError"

\* C26: in every Conversao that converter returns, the rate is not zero and
\* taxa_inversa is the reciprocal of the rate at the full resolution of the
\* representation (10^-5), not a value rounded to 2 fractional digits:
\* taxa_inversa * taxa differs from 1 by at most half a unit of that
\* resolution times the rate; taxa_inversa is never the 0 of the zero branch
C26_Inversa ==
    (ultima.op = "converter" /\ ultima.conversao # <<>>) =>
        LET conv == ultima.conversao[1]
            d    == conv.taxa_inversa * conv.taxa.m - 1000 * 1000 * 1000
        IN  /\ ~TaxaZero(conv.taxa)
            /\ conv.taxa.m > 0
            /\ conv.taxa_inversa > 0
            /\ 2 * Abs(d) <= conv.taxa.m

\* 5.0745 was returned with the reciprocal 0.19706
C26_Witness ==
    /\ ultima.op = "converter"
    /\ ultima.tipo = "retorno"
    /\ ultima.conversao # <<>>
    /\ ultima.conversao[1].taxa = Dec(50745, 0)
    /\ ultima.conversao[1].taxa_inversa = 19706

\* C27 (as stated): when the body of a response to obter_taxas,
\* obter_taxa_par or listar_moedas of the keyed client has a result field
\* other than "success", or none, the operation raises APIError, returns
\* nothing and memoizes nothing; with result "error" and an error-type
\* outside the known ones the message is "Erro da API: " and the type
C27_Original ==
    (/\ ultima.cliente = "ExchangeRate-API"
     /\ ultima.op \in {"obter_taxas", "obter_taxa_par", "listar_moedas"}
     /\ ~(ultima.op = "listar_moedas" /\ ultima.memo # <<>>)
     /\ ~("result" \in DOMAIN ultima.resposta
          /\ ultima.resposta["result"] = "success")) =>
        /\ ultima.tipo = "erro"
        /\ ultima.classe = "APIError"
        /\ ultima.ret = <<>>
        /\ \A i \in 1..Len(clients) :
             clients[i] = "ExchangeRate-API" => moedas_cliente[i] = ultima.memo
        /\ ("error-type" \in DOMAIN ultima.resposta
            /\ ultima.resposta["error-type"] \notin DOMAIN mensagens) =>
               ultima.mensagem = <<"Erro da API: ", ultima.resposta["error-type"]>>

\* C28: obter_taxa_par of either client raises APIError and returns no rate
\* when the body of the response has no rate for the target: for
\* Frankfurter no rates field or no key for the target in it, for
\* ExchangeRate-API no conversion_rate field (or a null one)
C28_SemTaxa ==
    (ultima.op = "obter_taxa_par" /\ ultima.cliente # "") =>
        LET data == ultima.resposta
            falta == IF ultima.cliente = "Frankfurter"
                     THEN \/ "rates" \notin DOMAIN data
                          \/ ultima.para \notin DOMAIN data["rates"]
                     ELSE \/ "conversion_rate" \notin DOMAIN data
                          \/ data["conversion_rate"] = <<>>
        IN  falta => /\ ultima.tipo = "erro"
                     /\ ultima.classe = "APIError"
                     /\ ultima.ret = <<>>

\* Frankfurter answered a request for BRL with the rate of EUR only
C28_Witness ==
    /\ ultima.op = "obter_taxa_par"
    /\ ultima.cliente = "Frankfurter"
    /\ ultima.para = <<"B", "R", "L">>
    /\ "rates" \in DOMAIN ultima.resposta
    /\ DOMAIN ultima.resposta["rates"] = {<<"E", "U", "R">>}
    /\ ultima.classe = "APIError"

\* C30: verificar_moeda, of a client and of the manager, never raises
\* APIError: when listar_moedas raised APIError it returns False, and when
\* listar_moedas returned a dict it returns whether the upper-cased code is a
\* key of that dict
C30_VerificarMoeda ==
    ultima.op = "verificar_moeda" =>
        LET l == ultima.resposta
        IN  /\ ~(ultima.tipo = "erro" /\ ultima.classe = "APIError")
            /\ (l.tipo = "erro" /\ l.classe = "APIError") =>
                  ultima.tipo = "retorno" /\ ultima.ret = <<FALSE>>
            /\ (l.tipo = "retorno" /\ l.moedas # <<>>) =>
                  /\ ultima.tipo = "retorno"
                  /\ ultima.ret = <<\E p \in l.moedas[1] : p[1] = Upper(ultima.de)>>

\* the manager was asked for "usd", its listing holds USD, and it answered
\* True
C30_Witness ==
    /\ ultima.op = "verificar_moeda"
    /\ ultima.cliente = ""
    /\ ultima.de = <<"u", "s", "d">>
    /\ ultima.chamadas # <<>>
    /\ ultima.ret = <<TRUE>>

C31_MemoPorInstancia ==
    [][ultima'.op \in {"listar_moedas", "get_status"} =>
          \A j \in 1..Len(clients) :
             IF j <= Len(ultima'.chamadas)
             THEN LET d == ultima'.chamadas[j].desfecho
                  IN  /\ ultima'.chamadas[j].nome = clients[j]
                      /\ moedas_cliente[j] # <<>> =>
                            /\ d.tipo = "retorno"
                            /\ d.taxa = moedas_cliente[j]
                            /\ moedas_cliente'[j] = moedas_cliente[j]
                      /\ moedas_cliente[j] = <<>> =>
                            moedas_cliente'[j] =
                               (IF d.tipo = "retorno" THEN d.taxa ELSE <<>>)
             ELSE moedas_cliente'[j] = moedas_cliente[j]]_vars

\* two Frankfurter clients: the first answered get_status from its memo (the
\* one-currency dict), the second sent its own request, which failed, and
\* has no memo
C31_Witness ==
    /\ ultima.op = "get_status"
    /\ clients = <<"Frankfurter", "Frankfurter">>
    /\ Len(ultima.chamadas) = 2
    /\ moedas_cliente[1] = <<{<<<<"U", "S", "D">>, "US Dollar">>}>>
    /\ ultima.chamadas[1].desfecho.taxa = moedas_cliente[1]
    /\ ultima.chamadas[2].desfecho.tipo = "APIError"
    /\ moedas_cliente[2] = <<>>
    /\ ultima.ret = <<[n \in {"Frankfurter"} |-> "offline"]>>

\* the positions of [primary, secondary] whose name is known and whose
\* client constructor returned
Vivos(u) ==
    {i \in 1..Len(Apis(u.primary, u.secondary)) :
        /\ Apis(u.primary, u.secondary)[i] \in {"frankfurter", "exchangerate"}
        /\ i \notin u.falhas}

\* C32: APIManager.__init__ always ends with a client list, and that list
\* holds, in the order primary then secondary, one client for each
\* configured name that is known and whose constructor did not raise, and
\* nothing else; it is empty when no name qualifies.
C32_Construcao ==
    ultima.op = "init" =>
        LET apis == Apis(ultima.primary, ultima.secondary)
            v    == Vivos(ultima)
        IN  /\ Len(clients) = Cardinality(v)
            /\ \A k \in 1..Len(clients) :
                 LET i == CHOOSE x \in v : Cardinality({y \in v : y <= x}) = k
                 IN  clients[k] = (IF apis[i] = "frankfurter" THEN "Frankfurter"
                                   ELSE "ExchangeRate-API")

\* frankfurter and exchangerate were configured, the FrankfurterClient
\* constructor raised, and the manager holds the ExchangeRate client alone
C32_Witness ==
    /\ ultima.op = "init"
    /\ ultima.primary = "frankfurter"
    /\ ultima.secondary = <<"exchangerate">>
    /\ ultima.falhas = {1}
    /\ clients = <<"ExchangeRate-API">>

\* C37: on a manager that holds no client, obter_taxa_par and listar_moedas
\* (every call of them) raise the APIError "Todas as APIs falharam: " with an
\* empty list of failures; they return nothing, call nothing and memoize
\* nothing.
C37_SemClientes ==
    (clients = <<>> /\ ultima.op \in {"obter_taxa_par", "listar_moedas"}) =>
        /\ ultima.tipo = "erro"
        /\ ultima.classe = "APIError"
        /\ ultima.mensagem = <<"Todas as APIs falharam: ">>
        /\ ultima.details = <<>>
        /\ ultima.ret = <<>>
        /\ ultima.chamadas = <<>>
        /\ moedas_cache = <<>>

\* the manager is empty and listar_moedas, called after the clock advanced,
\* raised the aggregate error with no failure in it
C37_Witness ==
    /\ clients = <<>>
    /\ agora > 0
    /\ ultima.op = "listar_moedas"
    /\ ultima.tipo = "erro"
    /\ ultima.details = <<>>

\* C38: in obter_taxa_par and listar_moedas of the manager, a client call
\* that raises an exception other than APIError is the last call made: that
\* same exception leaves the operation, no later client is called, and the
\* aggregate APIError (its message, its list of failures) is not produced;
\* nothing is returned and the manager memoizes nothing.
C38_SoAPIError ==
    ultima.op \in {"obter_taxa_par", "listar_moedas"} =>
        \A i \in 1..Len(ultima.chamadas) :
           ultima.chamadas[i].desfecho.tipo = "excecao" =>
              /\ i = Len(ultima.chamadas)
              /\ ultima.tipo = "erro"
              /\ ultima.classe = ultima.chamadas[i].desfecho.mensagem
              /\ ultima.classe # "APIError"
              /\ ultima.mensagem = <<>>
              /\ ultima.details = <<>>
              /\ ultima.ret = <<>>
              /\ ultima.op = "listar_moedas" => moedas_cache = <<>>

\* the first of two clients raised decimal.InvalidOperation in
\* obter_taxa_par; the second was not called and InvalidOperation reached
\* the caller
C38_Witness ==
    /\ ultima.op = "obter_taxa_par"
    /\ clients = <<"Frankfurter", "ExchangeRate-API">>
    /\ Len(ultima.chamadas) = 1
    /\ ultima.chamadas[1].desfecho.tipo = "excecao"
    /\ ultima.tipo = "erro"
    /\ ultima.classe = "InvalidOperation"

\* C39: a listar_moedas of the manager that raised leaves the manager's memo
\* unset, and every client whose own listar_moedas raised in it (or in
\* get_status) has its memo unset afterwards; the listar_moedas that follows
\* a failed one calls the clients again, starting with the first of the list.
C39_FalhaNaoMemorizada ==
    [][/\ (ultima'.op = "listar_moedas" /\ ultima'.tipo = "erro") =>
             /\ moedas_cache' = <<>>
             /\ moedas_cache = <<>>
       /\ ultima'.op \in {"listar_moedas", "get_status"} =>
             \A j \in 1..Len(ultima'.chamadas) :
                ultima'.chamadas[j].desfecho.tipo # "retorno" =>
                   /\ moedas_cliente[j] = <<>>
                   /\ moedas_cliente'[j] = <<>>
       /\ (/\ ultima.op = "listar_moedas"
           /\ ultima.tipo = "erro"
           /\ ultima'.op = "listar_moedas"
           /\ clients # <<>>) =>
             /\ Len(ultima'.chamadas) >= 1
             /\ ultima'.chamadas[1].nome = clients[1]]_vars

\* both clients raised APIError in listar_moedas: the aggregate error was
\* raised and neither the manager nor a client memoized anything
C39_Witness ==
    /\ ultima.op = "listar_moedas"
    /\ Len(clients) = 2
    /\ Len(ultima.chamadas) = 2
    /\ ultima.tipo = "erro"
    /\ ultima.classe = "APIError"
    /\ Len(ultima.details) = 2
    /\ moedas_cache = <<>>
    /\ moedas_cliente = <<<<>>, <<>>>>

\* C33: a get of a key that the memory tier lacks and whose file holds a
\* well-formed entry younger than the ttl returns the value of the file and
\* leaves the memory tier holding that value with the timestamp of the file,
\* not the instant of the read, so the promoted entry is still younger than
\* the ttl by the file's own timestamp; the file is kept.
C33_Promocao ==
    [][(/\ ultima'.op = "get"
        /\ agora' = agora
        /\ ultima'.chave \notin DOMAIN memory_cache
        /\ ultima'.chave \in DOMAIN disco
        /\ disco[ultima'.chave].tipo = "json"
        /\ agora - FromIsoFormat(disco[ultima'.chave].timestamp) < ttl) =>
          LET k   == ultima'.chave
              arq == disco[k]
          IN  /\ ultima'.tipo = "retorno"
              /\ ultima'.ret = <<JsonLoad(arq.value)>>
              /\ k \in DOMAIN memory_cache'
              /\ memory_cache'[k] = JsonLoad(arq.value)
              /\ k \in DOMAIN timestamps'
              /\ timestamps'[k] = FromIsoFormat(arq.timestamp)
              /\ disco' = disco]_vars

\* a file stored at an earlier instant was read after a restart: get returned
\* 0.025 and the memory tier holds it with the earlier instant
C33_Witness ==
    /\ ultima.op = "get"
    /\ ultima.ramo = "disco"
    /\ ultima.ret = <<250>>
    /\ ultima.chave \in DOMAIN timestamps
    /\ timestamps[ultima.chave] < agora
    /\ memory_cache[ultima.chave] = 250

\* C34: a get of a key that the memory tier lacks and whose file is expired
\* or damaged in any way (not JSON, JSON that is not an object, no timestamp
\* or no value field, a timestamp of the wrong type or format) returns None
\* without raising, removes the file and leaves the memory tier without the
\* key.
C34_Original ==
    [][(/\ ultima'.op = "get"
        /\ agora' = agora
        /\ ultima'.chave \notin DOMAIN memory_cache
        /\ ultima'.chave \in DOMAIN disco
        /\ \/ disco[ultima'.chave].tipo # "json"
           \/ ~(agora - FromIsoFormat(disco[ultima'.chave].timestamp) < ttl)) =>
          /\ ultima'.tipo = "retorno"
          /\ ultima'.ret = <<>>
          /\ ultima'.chave \notin DOMAIN disco'
          /\ ultima'.chave \notin DOMAIN memory_cache'
          /\ ultima'.chave \notin DOMAIN timestamps']_vars

\* C36: on a cache used by one caller at a time whose file writes all
\* complete, after any sequence of get, set, delete and clear (and restarts
\* over the same directory) the memory dict and the timestamp dict have the
\* same keys, and every key of the memory tier has a well-formed file that
\* decodes to the same value and the same timestamp.
C36_Coerencia ==
    /\ DOMAIN memory_cache = DOMAIN timestamps
    /\ \A k \in DOMAIN memory_cache :
         /\ k \in DOMAIN disco
         /\ disco[k].tipo = "json"
         /\ JsonLoad(disco[k].value) = memory_cache[k]
         /\ FromIsoFormat(disco[k].timestamp) = timestamps[k]

\* after a restart a get promoted 5.0745, stored at an earlier instant, and
\* both tiers hold it while the other key is in neither
C36_Witness ==
    /\ ultima.op = "get"
    /\ ultima.ramo = "disco"
    /\ Cardinality(DOMAIN memory_cache) = 1
    /\ DOMAIN disco = DOMAIN memory_cache
    /\ memory_cache[ultima.chave] = 50745
    /\ timestamps[ultima.chave] < agora
    /\ agora = MaxTempo

\* C35: a converter call served from the cache entry that the call just
\* before it populated (same pair, same amount, inside the ttl) uses exactly
\* the rate the client returned: it returns the same taxa, taxa_inversa and
\* valor_convertido as the call that fetched the rate.
C35_Original ==
    [][(/\ ultima.op = "converter"
        /\ ultima.tipo = "retorno"
        /\ ConverterGravou(ultima)
        /\ ultima'.op = "converter"
        /\ ultima'.do_cache
        /\ ultima'.chave = ultima.chave
        /\ ultima'.valor = ultima.valor) =>
          /\ ultima'.tipo = "retorno"
          /\ ultima'.conversao[1].taxa = ultima.conversao[1].taxa
          /\ ultima'.conversao[1].taxa_inversa = ultima.conversao[1].taxa_inversa
          /\ ultima'.conversao[1].valor_convertido =
                ultima.conversao[1].valor_convertido]_vars

\* C40: under cache_enabled False as under True, a converter call that
\* passes its validations reads the cache under the key of its pair: when
\* the memory tier holds a rate younger than the ttl the call uses it and
\* calls no client, and when it missed and a client returned a rate that
\* rate is in the memory tier and in the file afterwards, stamped now.
C40_FlagSemEfeito ==
    [][(ultima'.op = "converter" /\ agora' = agora /\ ultima'.chave # <<>>) =>
          LET k == ultima'.chave
          IN  /\ k = CacheKey(Normalizar(ultima'.de), Normalizar(ultima'.para))
              /\ ultima'.ramo \in {"memoria", "memoria_expirada", "disco",
                                   "disco_expirado", "disco_corrompido", "ausente"}
              /\ (/\ k \in DOMAIN memory_cache
                  /\ k \in DOMAIN timestamps
                  /\ agora - timestamps[k] < ttl) =>
                    /\ ultima'.do_cache
                    /\ ultima'.ramo = "memoria"
                    /\ ultima'.chamadas = <<>>
              /\ ConverterGravou(ultima') =>
                    LET taxa == UltimaChamada(ultima').desfecho.taxa
                    IN  /\ k \in DOMAIN memory_cache'
                        /\ memory_cache'[k] = ToFloat(taxa)
                        /\ k \in DOMAIN timestamps'
                        /\ timestamps'[k] = agora
                        /\ k \in DOMAIN disco'
                        /\ disco'[k] = Arquivo(agora, ToFloat(taxa))]_vars

\* with cache_enabled False a converter call was served from the memory tier
\* and called no client
C40_Witness ==
    /\ ~cache_enabled
    /\ ultima.op = "converter"
    /\ ultima.tipo = "retorno"
    /\ ultima.do_cache
    /\ ultima.ramo = "memoria"
    /\ ultima.chamadas = <<>>
    /\ ultima.chave \in DOMAIN disco

====
